---- MODULE Spec2Model ----
(***************************************************************************)
(* VigilCD: the reconciliation pass (DeploymentService.check_and_update),  *)
(* the deployment executor (DeploymentService.deploy_target with registry  *)
(* login / logout), the retry primitive and the status store               *)
(* (StateManager), modelled from src/VigilCD/src/service.py and            *)
(* src/VigilCD/src/state.py.                                               *)
(*                                                                         *)
(* One worker runs passes for one (repo, branch) pair.  Everything outside *)
(* the process (git remote, docker daemon, subprocess results, the process *)
(* environment) is an input chosen with \E at the step that reads it.      *)
(***************************************************************************)
EXTENDS Integers, Sequences, FiniteSets, TLC

\* ------------------------------------------------------------------ bounds
\* Largest number of targets of the branch.
MaxTargets == 2
\* Largest number of entries in the repository's registry list.
MaxRegistries == 2
\* Length of a full commit hash in the model (40 in git).
HashLen == 8
\* Largest retry count (argument or configured) _retry_with_backoff is
\* called with on its own.
MaxRetries == 4
\* Number of worker threads that call the store at the same time.
NumWorkers == 2
\* Number of consumers of StateManager.stream().
NumSubs == 2
\* Largest number of store calls made next to the subscribers.
MaxCalls == 2
\* Number of configured (repo, branch) pairs.
NumPairs == 2
\* Largest number of webhook-triggered passes of one pair in flight.
MaxHooks == 2
\* The count of finished passes of a pair saturates here.
MaxDone == 2
MaxChecks == 2
MaxNameLen == 2
MaxRefs == 2
NumDeployers == 2

\* ------------------------------------------------------- program constants
\* SchedulingConfig.git_retry_count
GitRetryCount == 3
\* SchedulingConfig.retry_backoff_factor
BackoffFactor == 2
\* remote_commit_hash[:7] / hexsha[:7]
ShortHashLen == 7

\* The (repo, branch) pair of the worker.
RepoName == "demo"
BranchName == "main"

\* Optional[datetime] = None is the empty tuple, a datetime t is <<t>>.
None == <<>>
\* BranchStatus.commit_hash default ("unknown"): no hash characters at all.
Unknown == <<>>

Range(s) == {s[i] : i \in DOMAIN s}
Min(a, b) == IF a < b THEN a ELSE b

\* Full commit hashes: the first two agree on their first HashLen-1
\* characters, the third differs from both in its first character.
Commits ==
  { [i \in 1..HashLen |-> 1],
    [i \in 1..HashLen |-> IF i = HashLen THEN 2 ELSE 1],
    [i \in 1..HashLen |-> IF i = 1 THEN 2 ELSE 1] }

\* Python slice h[:7].
ShortHash(h) == SubSeq(h, 1, Min(ShortHashLen, Len(h)))

VARIABLES
  targets,              \* branch_conf.targets: sequence of [name, deploy]
  registries,           \* repo_conf.registries: sequence of [username]
  dirExists,            \* os.path.exists(repo_path)
  localHead,            \* repo.head.commit.hexsha of the working copy
  status,               \* StateManager.status
  statusFile,           \* contents of STATUS_FILE
  listeners,            \* StateManager._listeners (one queue per subscriber)
  clock,                \* datetime.now(): the number of the current pass
  pc,                   \* position of the worker
  outcome,              \* how check_and_update ended: running/returned/raised
  is_new,               \* local of check_and_update
  git_updated,          \* local of check_and_update
  deployment_required,  \* local of check_and_update
  remote_commit_hash,   \* local of check_and_update
  ti,                   \* index of the target the loops are at
  hist,                 \* what the current pass has done so far
  call,                 \* the current / latest deploy_target call
  rt,                   \* a call of _retry_with_backoff on its own
  sched,                \* what triggers passes: start-up, timer, webhook
  prev,                 \* how the pass before the current one ended
  fn,                   \* a pure function on its own: inputs and result
  creds,                \* registries the docker client is logged in to
  deployers,            \* workers inside deploy_target at the same time
  workers,              \* threads inside StateManager.update_branch
  subs,                 \* consumers of StateManager.stream()
  lsnIds,               \* lsnIds[i]: the subscriber that owns listeners[i]
  storeHist             \* what has been done to the store so far

cfgVars == <<targets, registries>>
envVars == <<dirExists, localHead>>
storeVars == <<status, statusFile, listeners>>
localVars == <<is_new, git_updated, deployment_required, remote_commit_hash, ti>>
vars == <<targets, registries, dirExists, localHead, status, statusFile,
          listeners, clock, pc, outcome, is_new, git_updated,
          deployment_required, remote_commit_hash, ti, hist, call, rt,
          sched, prev, fn, creds, deployers, workers, subs, lsnIds, storeHist>>
\* The direct clients of the store, and what the reconciliation pass never
\* touches.
clientVars == <<workers, subs, lsnIds, storeHist>>
dockerVars == <<creds, deployers>>
sideVars == <<rt, sched, prev, fn, dockerVars, clientVars>>

\* ------------------------------------------------------------ StateManager
\* BranchStatus(branch_name=...)
NewBranchStatus ==
  [commit_hash |-> Unknown, sync_status |-> "idle", last_check_time |-> None,
   targets |-> [t \in {} |-> 0]]

\* TargetStatus(name=...)
NewTargetStatus == [status |-> "pending", message |-> "", last_deploy_time |-> None]

\* get_repo_status: creates the repository entry when it is absent.
GetRepoStatus(st, repo) ==
  IF repo \in DOMAIN st THEN st ELSE (repo :> [branches |-> [b \in {} |-> 0]]) @@ st

\* json.dumps(..., default=str): a datetime becomes its string form.
TimeToJson(t) == IF t = None THEN None ELSE <<"str", t[1]>>

TargetToJson(t) ==
  [status |-> t.status, message |-> t.message,
   last_deploy_time |-> TimeToJson(t.last_deploy_time)]

BranchToJson(b) ==
  [commit_hash |-> b.commit_hash, sync_status |-> b.sync_status,
   last_check_time |-> TimeToJson(b.last_check_time),
   targets |-> [t \in DOMAIN b.targets |-> TargetToJson(b.targets[t])]]

\* _to_json_serializable followed by json.dump(default=str)
ToJson(st) ==
  [r \in DOMAIN st |->
     [branches |-> [b \in DOMAIN st[r].branches |-> BranchToJson(st[r].branches[b])]]]

\* pydantic's parse of an Optional[datetime] field: null stays None, the
\* string form of a datetime becomes the datetime again.
TimeFromJson(j) == IF j = None THEN None ELSE <<j[2]>>

\* TargetStatus(**data)
TargetFromJson(j) ==
  [status |-> j.status, message |-> j.message,
   last_deploy_time |-> TimeFromJson(j.last_deploy_time)]

\* BranchStatus(**data)
BranchFromJson(j) ==
  [commit_hash |-> j.commit_hash, sync_status |-> j.sync_status,
   last_check_time |-> TimeFromJson(j.last_check_time),
   targets |-> [t \in DOMAIN j.targets |-> TargetFromJson(j.targets[t])]]

\* load_status on an existing file: RepoStatus(**repo_data) for every key.
LoadStatus(file) ==
  [r \in DOMAIN file |->
     [branches |-> [b \in DOMAIN file[r].branches |->
                      BranchFromJson(file[r].branches[b])]]]

\* Mutant of UpdateBranchStatus: the branch entry is built anew from the
\* named fields, as if it were created on every call.
UpdateBranchStatus_Reset(st, repo, branch, kw) ==
  LET st1 == GetRepoStatus(st, repo)
      b0 == NewBranchStatus
      b1 == [f \in DOMAIN b0 |-> IF f \in DOMAIN kw THEN kw[f] ELSE b0[f]]
  IN [st1 EXCEPT ![repo].branches = (branch :> b1) @@ @]

\* The in-memory effect of update_branch(repo, branch, **kw).
UpdateBranchStatus(st, repo, branch, kw) ==
  LET st1 == GetRepoStatus(st, repo)
      b0 == IF branch \in DOMAIN st1[repo].branches
              THEN st1[repo].branches[branch] ELSE NewBranchStatus
      b1 == [f \in DOMAIN b0 |-> IF f \in DOMAIN kw THEN kw[f] ELSE b0[f]]
  IN [st1 EXCEPT ![repo].branches = (branch :> b1) @@ @]

\* Whether update_target gets past its early return.
BranchExists(st, repo, branch) ==
  repo \in DOMAIN st /\ branch \in DOMAIN st[repo].branches

\* Mutant of UpdateTargetStatus: the deploy time is stamped whatever the
\* status.
UpdateTargetStatus_AlwaysStamp(st, repo, branch, target, newStatus, message, now) ==
  LET st1 == GetRepoStatus(st, repo)
  IN IF branch \notin DOMAIN st1[repo].branches THEN st1
     ELSE LET b == st1[repo].branches[branch]
              t0 == IF target \in DOMAIN b.targets THEN b.targets[target]
                    ELSE NewTargetStatus
              t1 == [t0 EXCEPT !.status = newStatus, !.message = message,
                               !.last_deploy_time = <<now>>]
          IN [st1 EXCEPT ![repo].branches[branch].targets = (target :> t1) @@ @]

\* The in-memory effect of update_target(repo, branch, target, status, message).
UpdateTargetStatus(st, repo, branch, target, newStatus, message, now) ==
  LET st1 == GetRepoStatus(st, repo)
  IN IF branch \notin DOMAIN st1[repo].branches THEN st1
     ELSE LET b == st1[repo].branches[branch]
              t0 == IF target \in DOMAIN b.targets THEN b.targets[target]
                    ELSE NewTargetStatus
              t1 == [t0 EXCEPT !.status = newStatus, !.message = message,
                               !.last_deploy_time =
                                  IF newStatus = "success" THEN <<now>> ELSE @]
          IN [st1 EXCEPT ![repo].branches[branch].targets = (target :> t1) @@ @]

\* Mutant of NotifyListeners: only the first queue is served.
NotifyListeners_FirstOnly(qs, st) ==
  [i \in DOMAIN qs |-> IF i = 1 THEN Append(qs[i], ToJson(st)) ELSE qs[i]]

\* for queue in self._listeners: queue.put_nowait(json_data)
PutAll(qs, json_data) == [i \in DOMAIN qs |-> Append(qs[i], json_data)]

\* notify_listeners: one snapshot of the whole store to every queue.
NotifyListeners(qs, st) == [i \in DOMAIN qs |-> Append(qs[i], ToJson(st))]

\* update_branch: mutate, fan out, save.
update_branch(repo, branch, kw) ==
  LET st1 == UpdateBranchStatus(status, repo, branch, kw)
  IN /\ status' = st1
     /\ listeners' = NotifyListeners(listeners, st1)
     /\ statusFile' = ToJson(st1)

\* update_target: no-op without the branch, else mutate, fan out, save.
update_target(repo, branch, target, newStatus, message) ==
  LET st1 == UpdateTargetStatus(status, repo, branch, target, newStatus, message, clock)
  IN /\ status' = st1
     /\ IF BranchExists(status, repo, branch)
          THEN /\ listeners' = NotifyListeners(listeners, st1)
               /\ statusFile' = ToJson(st1)
          ELSE UNCHANGED <<listeners, statusFile>>

\* What storeHist is before anything was done: store0 is the store at the
\* start, calls the update_branch / update_target calls made so far, fanout
\* the snapshot of the store after each call that got past its early return.
NewStoreHist == [store0 |-> <<>>, calls |-> <<>>, fanout |-> <<>>]

\* The triggers of passes are not looked at.
NoSched == [phase |-> "none"]

\* There was no pass before the current one.
NoPrev == [pass |-> 0]

\* No pure function is being applied on its own.
NoFn == [name |-> "none"]

\* Nobody is inside deploy_target besides the pass.
NoDeployers ==
  /\ creds = {}
  /\ deployers = <<>>

\* Nobody but the pass uses the store.
NoClients ==
  /\ workers = <<>>
  /\ subs = <<>>
  /\ lsnIds = <<>>
  /\ storeHist = NewStoreHist

\* The worker's branch and target entries in the store.
Br == status[RepoName].branches[BranchName]
HasTarget(t) == BranchExists(status, RepoName, BranchName) /\ t \in DOMAIN Br.targets

\* ------------------------------------------------------ _retry_with_backoff
RECURSIVE Pow(_, _)
Pow(b, e) == IF e <= 0 THEN 1 ELSE b * Pow(b, e - 1)

\* Mutant of Recoverable: every exception is retried.
Recoverable_Any(kind) == kind # "ok"

\* except (GitOperationError, GitCommandError)
Recoverable(kind) == kind = "giterr"

\* Mutant of WaitTime: the wait grows linearly.
WaitTime_Linear(backoff_factor, attempt) == backoff_factor * attempt

\* wait_time = backoff_factor**attempt
WaitTime(backoff_factor, attempt) == Pow(backoff_factor, attempt)

\* The loop of _retry_with_backoff from iteration `attempt` on.  outs[i] is
\* what the i-th invocation of func does: kind "ok" (returns value), "giterr"
\* (GitOperationError / GitCommandError) or "other" (any other exception).
\* kind "none" is the "return None" after the loop.
\* waits: the arguments of time.sleep, in order.
RECURSIVE RetryFrom(_, _, _, _, _)
RetryFrom(outs, max_retries, backoff_factor, attempt, waits) ==
  IF attempt >= max_retries
    THEN [kind |-> "none", value |-> None, calls |-> attempt, waits |-> waits]
    ELSE LET o == outs[attempt + 1] IN
      IF Recoverable(o.kind) /\ attempt # max_retries - 1
        THEN RetryFrom(outs, max_retries, backoff_factor, attempt + 1,
                       Append(waits, WaitTime(backoff_factor, attempt)))
        ELSE [kind |-> o.kind, value |-> o.value, calls |-> attempt + 1,
              waits |-> waits]

\* Python "arg or default": None and 0 (both written 0 here) give the default.
OrDefault(arg, default) == IF arg = 0 THEN default ELSE arg

\* _retry_with_backoff(func, max_retries, backoff_factor) under the
\* scheduling configuration `config`.
RetryWithBackoff(outs, max_retries, backoff_factor, config) ==
  RetryFrom(outs, OrDefault(max_retries, config.git_retry_count),
            OrDefault(backoff_factor, config.retry_backoff_factor), 0, <<>>)

\* self._retry_with_backoff(func) as the pass calls it: both arguments None.
_retry_with_backoff(outs, git_retry_count) ==
  RetryWithBackoff(outs, 0, 0, [git_retry_count |-> git_retry_count,
                                retry_backoff_factor |-> BackoffFactor])

\* No call of _retry_with_backoff on its own is under way.
NoRetryCall ==
  [outs |-> <<>>, max_retries |-> 0, backoff_factor |-> 0,
   config |-> [git_retry_count |-> GitRetryCount,
               retry_backoff_factor |-> BackoffFactor],
   done |-> FALSE, result |-> [kind |-> "none", value |-> None, calls |-> 0,
                               waits |-> <<>>]]

\* What one invocation of the wrapped function can meet.
Attempts(S) == [1..GitRetryCount -> S]

\* Repo.clone_from: cloned at some remote tip, or any exception.
CloneRaws == [kind : {"done"}, value : Commits] \cup [kind : {"exc"}, value : {None}]
\* repo.git.ls_remote: output (possibly empty), GitCommandError, other exception.
LsRemoteRaws ==
  [kind : {"out"}, value : Commits \cup {<<>>}]
    \cup [kind : {"gitcmd", "exc"}, value : {None}]
\* fetch + reset --hard + clean: done at some remote tip; a GitCommandError
\* or other exception leaves HEAD where the failing command found it.
PullRaws == [kind : {"done", "gitcmd", "exc"}, value : Commits]

\* History only: every one of the configured attempts of `step` met a git
\* failure (clone: any exception; ls-remote: a GitCommandError or an empty
\* output; fetch/reset/clean: a GitCommandError).
GitFailure(step, raw) ==
  IF step = "clone" THEN raw.kind = "exc"
  ELSE IF step = "lsremote"
    THEN raw.kind = "gitcmd" \/ (raw.kind = "out" /\ raw.value = <<>>)
  ELSE raw.kind = "gitcmd"

Exhausted(step, outs) ==
  GitRetryCount >= 1 /\ \A i \in 1..GitRetryCount : GitFailure(step, outs[i])

\* clone() of ensure_repo: every exception becomes GitOperationError.
clone(raw) ==
  IF raw.kind = "done" THEN [kind |-> "ok", value |-> raw.value]
  ELSE [kind |-> "giterr", value |-> None]

\* Mutant of fetch_remote_info: an empty output is returned like any other.
fetch_remote_info_NoEmptyCheck(raw) ==
  IF raw.kind = "out" THEN [kind |-> "ok", value |-> raw.value]
  ELSE IF raw.kind = "gitcmd" THEN [kind |-> "giterr", value |-> None]
  ELSE [kind |-> "other", value |-> None]

\* fetch_remote_info() of check_and_update.
fetch_remote_info(raw) ==
  IF raw.kind = "out"
    THEN IF raw.value = <<>> THEN [kind |-> "giterr", value |-> None]
         ELSE [kind |-> "ok", value |-> raw.value]
  ELSE IF raw.kind = "gitcmd" THEN [kind |-> "giterr", value |-> None]
  ELSE [kind |-> "other", value |-> None]

\* pull_changes() of check_and_update.
pull_changes(raw) ==
  [kind |-> IF raw.kind = "done" THEN "ok"
            ELSE IF raw.kind = "gitcmd" THEN "giterr" ELSE "other",
   value |-> raw.value]

\* ------------------------------------------------------- check_and_update
NewHist ==
  [raised |-> "none",       \* step whose exception reached check_and_update
   excKind |-> "none",      \* "giterr" (GitOperationError) or "other"
   lsRemoteOk |-> FALSE,    \* ls-remote returned a tip in this pass
   needPull |-> FALSE,      \* the comparison asked for a pull
   pulling |-> FALSE,       \* the branch was set to pulling
   pullOk |-> FALSE,        \* fetch / reset / clean succeeded
   health |-> <<>>,         \* results of the health checks, in order
   deployCalls |-> <<>>,    \* targets deploy_target was invoked for, in order
   targetWrites |-> <<>>,   \* <<target, status>> of every update_target call
   exhausted |-> "none",    \* git step all of whose attempts failed
   lsEmpty |-> FALSE,       \* ... the last ls-remote attempt returned nothing
   targetsAtStart |-> <<>>] \* the branch's targets map when the pass began

\* Locals of a deploy_target call and what the call has done so far.
NewCall ==
  [target |-> 0,
   active |-> FALSE,          \* the call has begun and not yet returned
   returned |-> FALSE,        \* the call has returned
   probe |-> "none",          \* what the daemon probe of the call met
   login_successful |-> FALSE,
   k |-> 0,                   \* index of the registry the loops are at
   validated |-> FALSE,       \* validate_docker_compose_env was run
   valid |-> FALSE,           \* ... and what is_valid it returned
   deploying |-> FALSE,       \* the target was set to deploying
   loginResult |-> "none",    \* docker_login_registries: true/false/raised
   loginStop |-> "none",      \* why it returned false
   loginFailed |-> "none",    \* what a private registry's login met:
                              \* password (unset), nonzero, timeout
   pwSet |-> {},              \* private registries whose password was set
   loginRuns |-> <<>>,        \* registries a login subprocess ran for
   loggedIn |-> {},           \* registries whose login succeeded
   composeRuns |-> 0,         \* number of compose up invocations
   composeResult |-> "none",
   atFinally |-> <<>>,        \* <<status, message>> on entry to finally
   logoutRuns |-> <<>>,       \* registries a logout subprocess ran for
   logoutFailed |-> {}]       \* registries whose logout failed

\* Mutant of HandlerFor: the top-level handler catches git errors only.
HandlerFor_GitOnly(kind, inInnerTry) ==
  IF kind = "giterr" THEN (IF inInnerTry THEN "inner" ELSE "outer")
  ELSE "propagate"

\* Which handler of check_and_update an exception of `kind` lands in:
\* "except GitOperationError" of the inner try, else "except Exception".
HandlerFor(kind, inInnerTry) ==
  IF inInnerTry /\ kind = "giterr" THEN "inner" ELSE "outer"

\* An exception of `kind` leaves `step`.  Both handlers mark the branch error.
Fail(h, kind, inInnerTry, step) ==
  /\ hist' = [h EXCEPT !.raised = step, !.excKind = kind]
  /\ IF HandlerFor(kind, inInnerTry) \in {"inner", "outer"}
       THEN /\ update_branch(RepoName, BranchName, [sync_status |-> "error"])
            /\ outcome' = "returned"
       ELSE /\ UNCHANGED storeVars
            /\ outcome' = "raised"
  /\ pc' = "done"

\* update_branch(sync_status="checking", last_check_time=datetime.now())
StartPass ==
  /\ pc = "idle"
  /\ clock' = clock + 1
  /\ update_branch(RepoName, BranchName,
                   [sync_status |-> "checking", last_check_time |-> <<clock'>>])
  /\ pc' = "ensure"
  /\ outcome' = "running"
  /\ is_new' = FALSE
  /\ git_updated' = FALSE
  /\ deployment_required' = FALSE
  /\ remote_commit_hash' = None
  /\ ti' = 0
  /\ hist' = [NewHist EXCEPT !.targetsAtStart =
                IF BranchExists(status, RepoName, BranchName)
                  THEN Br.targets ELSE <<>>]
  /\ call' = NewCall
  /\ UNCHANGED <<cfgVars, sideVars, envVars>>

\* ensure_repo when the working directory exists.
EnsureRepoExists ==
  /\ pc = "ensure"
  /\ dirExists
  /\ is_new' = FALSE
  /\ pc' = "open"
  /\ UNCHANGED <<cfgVars, sideVars, envVars, storeVars, clock, outcome, git_updated,
                 deployment_required, remote_commit_hash, ti, hist, call>>

\* ensure_repo when it does not: makedirs, clone through the retry wrapper;
\* a failed clone removes the directory again.
EnsureRepoClone ==
  /\ pc = "ensure"
  /\ ~dirExists
  /\ \E outs \in Attempts(CloneRaws) :
       LET r == _retry_with_backoff([i \in DOMAIN outs |-> clone(outs[i])],
                                    GitRetryCount)
       IN IF r.kind = "giterr"
            THEN /\ Fail([hist EXCEPT !.exhausted =
                           IF Exhausted("clone", outs) THEN "clone" ELSE @],
                         "giterr", FALSE, "clone")
                 /\ UNCHANGED <<dirExists, localHead, is_new>>
            ELSE /\ dirExists' = TRUE
                 /\ localHead' = r.value
                 /\ is_new' = TRUE
                 /\ pc' = "open"
                 /\ UNCHANGED <<storeVars, outcome, hist>>
  /\ UNCHANGED <<cfgVars, sideVars, clock, git_updated, deployment_required,
                 remote_commit_hash, ti, call>>

\* repo = Repo(repo_path): raises when the directory is no git repository.
OpenRepo ==
  /\ pc = "open"
  /\ \E ok \in BOOLEAN :
       IF ok /\ localHead # None
         THEN /\ pc' = "gitenv"
              /\ UNCHANGED <<storeVars, outcome, hist>>
         ELSE Fail(hist, "other", FALSE, "open")
  /\ UNCHANGED <<cfgVars, sideVars, envVars, clock, localVars, call>>

\* remote_url = repo.remotes.origin.url; git_env = self._get_git_env(repo_conf)
\* (GitOperationError when ssh auth has no usable key).
GetGitEnv ==
  /\ pc = "gitenv"
  /\ \E ok \in BOOLEAN :
       IF ok
         THEN /\ pc' = "lsremote"
              /\ UNCHANGED <<storeVars, outcome, hist>>
         ELSE Fail(hist, "giterr", TRUE, "gitenv")
  /\ UNCHANGED <<cfgVars, sideVars, envVars, clock, localVars, call>>

\* ls-remote through the retry wrapper, then update_branch(commit_hash=...[:7]).
LsRemote ==
  /\ pc = "lsremote"
  /\ \E outs \in Attempts(LsRemoteRaws) :
       LET r == _retry_with_backoff([i \in DOMAIN outs |-> fetch_remote_info(outs[i])],
                                    GitRetryCount)
           h == [hist EXCEPT
                   !.exhausted = IF Exhausted("lsremote", outs) THEN "lsremote" ELSE @,
                   !.lsEmpty = Exhausted("lsremote", outs)
                               /\ outs[GitRetryCount].kind = "out"]
       IN IF r.kind = "ok"
            THEN /\ remote_commit_hash' = r.value
                 /\ update_branch(RepoName, BranchName,
                                  [commit_hash |-> ShortHash(r.value)])
                 /\ hist' = [h EXCEPT !.lsRemoteOk = TRUE]
                 /\ pc' = "compare"
                 /\ UNCHANGED outcome
            ELSE /\ Fail(h, IF r.kind = "giterr" THEN "giterr" ELSE "other", TRUE,
                         "lsremote")
                 /\ UNCHANGED remote_commit_hash
  /\ UNCHANGED <<cfgVars, sideVars, envVars, clock, is_new, git_updated,
                 deployment_required, ti, call>>

\* Mutant of NeedsPull: a fresh clone is not pulled.
NeedsPull_NoNew(local_commit_hash, remote, isNew) == local_commit_hash # remote

\* if local_commit_hash != remote_commit_hash or is_new
NeedsPull(local_commit_hash, remote, isNew) ==
  local_commit_hash # remote \/ isNew

\* The comparison and the update_branch of either branch of the if.
Compare ==
  /\ pc = "compare"
  /\ IF NeedsPull(localHead, remote_commit_hash, is_new)
       THEN /\ update_branch(RepoName, BranchName, [sync_status |-> "pulling"])
            /\ hist' = [hist EXCEPT !.needPull = TRUE, !.pulling = TRUE]
            /\ pc' = "pull"
            /\ UNCHANGED ti
       ELSE /\ update_branch(RepoName, BranchName, [sync_status |-> "idle"])
            /\ UNCHANGED hist
            /\ pc' = "health"
            /\ ti' = 1
  /\ UNCHANGED <<cfgVars, sideVars, envVars, clock, outcome, is_new, git_updated,
                 deployment_required, remote_commit_hash, call>>

\* Mutant of AfterPull: the hash is recorded in full.
AfterPull_FullHash(head) == [sync_status |-> "idle", commit_hash |-> head]

\* The branch fields written after a successful pull.
AfterPull(head) == [sync_status |-> "idle", commit_hash |-> ShortHash(head)]

\* pull_changes through the retry wrapper; on success update_branch(idle,
\* commit_hash=repo.head.commit.hexsha[:7]) and both flags are set.
Pull ==
  /\ pc = "pull"
  /\ \E outs \in Attempts(PullRaws) :
       LET r == _retry_with_backoff([i \in DOMAIN outs |-> pull_changes(outs[i])],
                                    GitRetryCount)
           h == [hist EXCEPT
                   !.exhausted = IF Exhausted("pull", outs) THEN "pull" ELSE @]
       IN IF r.kind = "ok"
            THEN /\ localHead' = r.value
                 /\ update_branch(RepoName, BranchName, AfterPull(r.value))
                 /\ hist' = [h EXCEPT !.pullOk = TRUE]
                 /\ git_updated' = TRUE
                 /\ deployment_required' = TRUE
                 /\ pc' = "deploy"
                 /\ ti' = 1
                 /\ UNCHANGED outcome
            ELSE /\ localHead' = IF r.kind = "none" THEN localHead ELSE r.value
                 /\ Fail(h, IF r.kind = "giterr" THEN "giterr" ELSE "other", TRUE,
                         "pull")
                 /\ UNCHANGED <<git_updated, deployment_required, ti>>
  /\ UNCHANGED <<cfgVars, sideVars, dirExists, clock, is_new, remote_commit_hash, call>>

\* ------------------------------------------------ is_docker_daemon_running
\* What "docker info" can meet: the executable is missing, exit code zero,
\* non-zero exit, timeout, any other exception.
ProbeRaws == {"ok", "notfound", "nonzero", "timeout", "exc"}

\* Mutant of is_docker_daemon_running: a probe that times out counts as up.
is_docker_daemon_running_TimeoutUp(raw) == raw \in {"ok", "timeout"}

\* True only when "docker info" exits zero; every exception returns False.
is_docker_daemon_running(raw) == raw = "ok"

\* ----------------------------------------------- check_actual_target_state
\* What "docker compose ps --services --filter status=running" can meet:
\* stdout (with or without services) and an exit code, a timeout, an exception.
PsRaws ==
  [kind : {"exit"}, services : BOOLEAN, returncode : {0, 1}]
    \cup [kind : {"timeout", "exc"}, services : {FALSE}, returncode : {0}]

check_actual_target_state(probe, ps) ==
  IF ~is_docker_daemon_running(probe) THEN "daemon_unavailable"
  ELSE IF ps.kind # "exit" THEN "error_check"
  ELSE IF ps.services THEN "running"
  ELSE IF ps.returncode = 0 THEN "stopped"
  ELSE "error_check"

\* Mutant of HealthCheckFailed: whatever the check says is taken as drift.
HealthCheckFailed_Always(actual_state) == TRUE

\* Mutant of HealthCheckFailed: a failed check is not taken as drift.
HealthCheckFailed_NoErrorCheck(actual_state) ==
  actual_state \in {"stopped", "daemon_unavailable"}

\* if actual_state in ["stopped", "daemon_unavailable", "error_check"]
HealthCheckFailed(actual_state) ==
  actual_state \in {"stopped", "daemon_unavailable", "error_check"}

\* One iteration of the health-check loop (entered only when not git_updated).
HealthCheck ==
  /\ pc = "health"
  /\ ti <= Len(targets)
  /\ \E probe \in ProbeRaws, ps \in PsRaws :
       LET actual_state == check_actual_target_state(probe, ps)
       IN /\ hist' = [hist EXCEPT !.health = Append(@, actual_state)]
          /\ IF HealthCheckFailed(actual_state)
               THEN /\ deployment_required' = TRUE
                    /\ pc' = "deploy"
                    /\ ti' = 1
               ELSE /\ ti' = ti + 1
                    /\ UNCHANGED <<deployment_required, pc>>
  /\ UNCHANGED <<cfgVars, sideVars, envVars, storeVars, clock, outcome, is_new,
                 git_updated, remote_commit_hash, call>>

\* The loop ran out of targets: "if deployment_required" decides.
HealthDone ==
  /\ pc = "health"
  /\ ti > Len(targets)
  /\ IF deployment_required
       THEN /\ pc' = "deploy"
            /\ ti' = 1
            /\ UNCHANGED outcome
       ELSE /\ pc' = "done"
            /\ outcome' = "returned"
            /\ UNCHANGED ti
  /\ UNCHANGED <<cfgVars, sideVars, envVars, storeVars, clock, is_new, git_updated,
                 deployment_required, remote_commit_hash, hist, call>>

\* Mutant of LoopChoice: the deploy flag is not looked at.
LoopChoice_Always(target) == "deploy"

\* What the deployment loop does with a target: "if target.deploy".
LoopChoice(target) == IF target.deploy THEN "deploy" ELSE "skip"

\* One iteration of the deployment loop for a target that is not deployed.
SkipTarget ==
  /\ pc = "deploy"
  /\ ti <= Len(targets)
  /\ LoopChoice(targets[ti]) = "skip"
  /\ update_target(RepoName, BranchName, targets[ti].name, "skipped",
                   "Deploy disabled")
  /\ hist' = [hist EXCEPT !.targetWrites =
                Append(@, <<targets[ti].name, "skipped">>)]
  /\ ti' = ti + 1
  /\ UNCHANGED <<cfgVars, sideVars, envVars, clock, pc, outcome, is_new, git_updated,
                 deployment_required, remote_commit_hash, call>>

\* The deployment loop ran out of targets: check_and_update returns.
DeployDone ==
  /\ pc = "deploy"
  /\ ti > Len(targets)
  /\ pc' = "done"
  /\ outcome' = "returned"
  /\ UNCHANGED <<cfgVars, sideVars, envVars, storeVars, clock, localVars, hist, call>>

\* ----------------------------------------------------------- deploy_target
\* <<status, message>> of a target as the store holds it.
Recorded(t) == <<Br.targets[t].status, Br.targets[t].message>>

\* deploy_target returns to the deployment loop.
Return(c) ==
  /\ call' = [c EXCEPT !.active = FALSE, !.returned = TRUE]
  /\ pc' = "deploy"
  /\ ti' = ti + 1

\* update_target for the target of the call, noted in the pass history.
SetTarget(newStatus, message) ==
  /\ update_target(RepoName, BranchName, targets[ti].name, newStatus, message)
  /\ hist' = [hist EXCEPT !.targetWrites =
                Append(@, <<targets[ti].name, newStatus>>)]

\* One iteration of the deployment loop for a target that is deployed: the
\* call of deploy_target and its daemon probe.
DeployTargetProbe ==
  /\ pc = "deploy"
  /\ ti <= Len(targets)
  /\ LoopChoice(targets[ti]) = "deploy"
  /\ \E probe \in ProbeRaws :
       LET c == [NewCall EXCEPT !.target = targets[ti].name, !.active = TRUE,
                                !.probe = probe]
       IN IF ~is_docker_daemon_running(probe)
            THEN /\ update_target(RepoName, BranchName, targets[ti].name,
                                  "error", "Docker daemon unavailable")
                 /\ hist' = [hist EXCEPT
                      !.deployCalls = Append(@, targets[ti].name),
                      !.targetWrites = Append(@, <<targets[ti].name, "error">>)]
                 /\ Return(c)
            ELSE /\ hist' = [hist EXCEPT
                      !.deployCalls = Append(@, targets[ti].name)]
                 /\ call' = c
                 /\ pc' = "dt_validate"
                 /\ UNCHANGED <<storeVars, ti>>
  /\ UNCHANGED <<cfgVars, sideVars, envVars, clock, outcome, is_new, git_updated,
                 deployment_required, remote_commit_hash>>

\* Mutant of AbortOnInvalid: the validation result is ignored.
AbortOnInvalid_Never(is_valid) == FALSE

\* if not is_valid: record the error and return
AbortOnInvalid(is_valid) == ~is_valid

\* is_valid, warnings = validate_docker_compose_env(target.file, cwd)
DeployValidate ==
  /\ pc = "dt_validate"
  /\ \E is_valid \in BOOLEAN :
       LET c == [call EXCEPT !.validated = TRUE, !.valid = is_valid]
       IN IF AbortOnInvalid(is_valid)
            THEN /\ SetTarget("error", "Missing environment configuration")
                 /\ Return(c)
            ELSE /\ call' = c
                 /\ pc' = "dt_deploying"
                 /\ UNCHANGED <<storeVars, hist, ti>>
  /\ UNCHANGED <<cfgVars, sideVars, envVars, clock, outcome, is_new, git_updated,
                 deployment_required, remote_commit_hash>>

\* update_target(..., "deploying", "Starting deployment..."); login_successful = False
DeploySetDeploying ==
  /\ pc = "dt_deploying"
  /\ SetTarget("deploying", "Starting deployment...")
  /\ call' = [call EXCEPT !.deploying = TRUE, !.login_successful = FALSE]
  /\ pc' = "dt_exe"
  /\ UNCHANGED <<cfgVars, sideVars, envVars, clock, outcome, localVars>>

\* docker_path = self._get_executable_path("docker"): a DeploymentError lands
\* in "except Exception" of deploy_target.
DeployGetExecutable ==
  /\ pc = "dt_exe"
  /\ \E found \in BOOLEAN :
       IF found
         THEN /\ pc' = "dt_login_begin"
              /\ UNCHANGED <<storeVars, hist>>
         ELSE /\ SetTarget("error", "Unexpected error")
              /\ pc' = "dt_finally"
  /\ UNCHANGED <<cfgVars, sideVars, envVars, clock, outcome, localVars, call>>

\* What docker_login_registries does before its loop: "if not registries"
\* returns True, a missing docker executable returns False.
LoginEntry(regs, found) ==
  IF regs = <<>> THEN "true" ELSE IF ~found THEN "false" ELSE "loop"

\* What "docker login" can meet: exit zero, non-zero exit, timeout, any other
\* exception.
LoginRaws == {"ok", "nonzero", "timeout", "exc"}

\* Mutant of LoginStep: a login that times out is skipped over.
LoginStep_TimeoutContinues(reg, pwSet, raw) ==
  IF ~reg.username THEN [next |-> "continue", ran |-> FALSE, ok |-> FALSE]
  ELSE IF ~pwSet THEN [next |-> "false", ran |-> FALSE, ok |-> FALSE]
  ELSE IF raw = "ok" THEN [next |-> "continue", ran |-> TRUE, ok |-> TRUE]
  ELSE IF raw = "nonzero" THEN [next |-> "false", ran |-> TRUE, ok |-> FALSE]
  ELSE IF raw = "timeout" THEN [next |-> "continue", ran |-> TRUE, ok |-> FALSE]
  ELSE [next |-> "raise", ran |-> TRUE, ok |-> FALSE]

\* Mutant of LoginStep: public registries are logged in to as well.
LoginStep_NoPublicSkip(reg, pwSet, raw) ==
  IF ~pwSet THEN [next |-> "false", ran |-> FALSE, ok |-> FALSE]
  ELSE IF raw = "ok" THEN [next |-> "continue", ran |-> TRUE, ok |-> TRUE]
  ELSE IF raw \in {"nonzero", "timeout"}
    THEN [next |-> "false", ran |-> TRUE, ok |-> FALSE]
  ELSE [next |-> "raise", ran |-> TRUE, ok |-> FALSE]

\* One iteration of the loop of docker_login_registries for registry `reg`;
\* pwSet: os.getenv(registry.password_env_var) is non-empty.
\* next: "continue", "false" (return False) or "raise"; ran: the login
\* subprocess ran; ok: it logged in.
LoginStep(reg, pwSet, raw) ==
  IF ~reg.username THEN [next |-> "continue", ran |-> FALSE, ok |-> FALSE]
  ELSE IF ~pwSet THEN [next |-> "false", ran |-> FALSE, ok |-> FALSE]
  ELSE IF raw = "ok" THEN [next |-> "continue", ran |-> TRUE, ok |-> TRUE]
  ELSE IF raw \in {"nonzero", "timeout"}
    THEN [next |-> "false", ran |-> TRUE, ok |-> FALSE]
  ELSE [next |-> "raise", ran |-> TRUE, ok |-> FALSE]

\* What deploy_target does with the result of docker_login_registries:
\* False records the login failure and returns (through finally), True sets
\* login_successful, an exception lands in "except Exception".
AfterLogin(c, result) ==
  IF result = "true"
    THEN /\ call' = [c EXCEPT !.loginResult = "true", !.login_successful = TRUE]
         /\ pc' = "dt_compose"
         /\ UNCHANGED <<storeVars, hist>>
  ELSE IF result = "false"
    THEN /\ call' = [c EXCEPT !.loginResult = "false"]
         /\ SetTarget("error", "Docker registry login failed")
         /\ pc' = "dt_finally"
  ELSE /\ call' = [c EXCEPT !.loginResult = "raised"]
       /\ SetTarget("error", "Unexpected error")
       /\ pc' = "dt_finally"

\* docker_login_registries up to its loop.
DeployLoginBegin ==
  /\ pc = "dt_login_begin"
  /\ \E found \in BOOLEAN :
       LET e == LoginEntry(registries, found)
       IN IF e = "loop"
            THEN /\ call' = [call EXCEPT !.k = 1]
                 /\ pc' = "dt_login"
                 /\ UNCHANGED <<storeVars, hist>>
            ELSE AfterLogin([call EXCEPT !.loginStop =
                               IF e = "false" THEN "notfound" ELSE "none"], e)
  /\ UNCHANGED <<cfgVars, sideVars, envVars, clock, outcome, localVars>>

\* One iteration of the loop of docker_login_registries.
DeployLoginStep ==
  /\ pc = "dt_login"
  /\ call.k <= Len(registries)
  /\ \E pwSet \in BOOLEAN, raw \in LoginRaws :
       LET r == LoginStep(registries[call.k], pwSet, raw)
           reg == registries[call.k]
           c == [call EXCEPT
                   !.pwSet = IF reg.username /\ pwSet THEN @ \cup {call.k} ELSE @,
                   !.loginFailed =
                      IF reg.username /\ ~pwSet THEN "password"
                      ELSE IF reg.username /\ raw \in {"nonzero", "timeout"}
                        THEN raw ELSE @,
                   !.loginRuns = IF r.ran THEN Append(@, call.k) ELSE @,
                   !.loggedIn = IF r.ok THEN @ \cup {call.k} ELSE @,
                   !.loginStop = IF r.next = "false"
                                   THEN (IF r.ran THEN raw ELSE "password")
                                   ELSE @]
       IN IF r.next = "continue"
            THEN /\ call' = [c EXCEPT !.k = @ + 1]
                 /\ UNCHANGED <<storeVars, hist, pc>>
            ELSE AfterLogin(c, r.next)
  /\ UNCHANGED <<cfgVars, sideVars, envVars, clock, outcome, localVars>>

\* The loop of docker_login_registries ran out of registries: return True.
DeployLoginDone ==
  /\ pc = "dt_login"
  /\ call.k > Len(registries)
  /\ AfterLogin(call, "true")
  /\ UNCHANGED <<cfgVars, sideVars, envVars, clock, outcome, localVars>>

\* What "docker compose up" can meet.
ComposeRaws == {"ok", "nonzero", "timeout", "exc"}

\* Mutant of ComposeOutcome: a timeout of compose up records nothing new.
ComposeOutcome_TimeoutSilent(raw) ==
  IF raw = "ok" THEN <<"success", "Running">>
  ELSE IF raw = "nonzero" THEN <<"error", "Deployment error">>
  ELSE IF raw = "timeout" THEN <<"deploying", "Starting deployment...">>
  ELSE <<"error", "Unexpected error">>

\* <<status, message>> recorded for the outcome of compose up.
ComposeOutcome(raw) ==
  IF raw = "ok" THEN <<"success", "Running">>
  ELSE IF raw = "nonzero" THEN <<"error", "Deployment error">>
  ELSE IF raw = "timeout" THEN <<"error", "Timeout">>
  ELSE <<"error", "Unexpected error">>

\* subprocess.run(compose up) and the update_target of its outcome.
DeployCompose ==
  /\ pc = "dt_compose"
  /\ \E raw \in ComposeRaws :
       /\ SetTarget(ComposeOutcome(raw)[1], ComposeOutcome(raw)[2])
       /\ call' = [call EXCEPT !.composeRuns = @ + 1, !.composeResult = raw]
  /\ pc' = "dt_finally"
  /\ UNCHANGED <<cfgVars, sideVars, envVars, clock, outcome, localVars>>

\* finally: "if login_successful" decides whether logout is called.
LogoutDue(c) == c.login_successful

\* What docker_logout_registries does before its loop.
LogoutEntry(regs, found) ==
  IF regs = <<>> THEN "return" ELSE IF ~found THEN "return" ELSE "loop"

\* The finally block of deploy_target up to the loop of
\* docker_logout_registries.
DeployFinally ==
  /\ pc = "dt_finally"
  /\ \E found \in BOOLEAN :
       LET c == [call EXCEPT !.atFinally = Recorded(call.target)]
       IN IF LogoutDue(call) /\ LogoutEntry(registries, found) = "loop"
            THEN /\ call' = [c EXCEPT !.k = 1]
                 /\ pc' = "dt_logout"
                 /\ UNCHANGED ti
            ELSE Return(c)
  /\ UNCHANGED <<cfgVars, sideVars, envVars, storeVars, clock, outcome, is_new,
                 git_updated, deployment_required, remote_commit_hash, hist>>

\* What "docker logout" can meet.
LogoutRaws == {"ok", "nonzero", "timeout", "exc"}

\* Mutant of LogoutStep: an exception of the logout subprocess leaves the loop.
LogoutStep_Raises(reg, raw) ==
  IF ~reg.username THEN [next |-> "continue", ran |-> FALSE, failed |-> FALSE]
  ELSE [next |-> IF raw = "exc" THEN "raise" ELSE "continue", ran |-> TRUE,
        failed |-> raw # "ok"]

\* One iteration of the loop of docker_logout_registries for registry `reg`:
\* every outcome of the subprocess is caught inside the loop.
LogoutStep(reg, raw) ==
  IF ~reg.username THEN [next |-> "continue", ran |-> FALSE, failed |-> FALSE]
  ELSE [next |-> "continue", ran |-> TRUE, failed |-> raw # "ok"]

\* One iteration of the loop of docker_logout_registries; an exception
\* leaving it would be swallowed by the try of the finally block.
DeployLogoutStep ==
  /\ pc = "dt_logout"
  /\ call.k <= Len(registries)
  /\ \E raw \in LogoutRaws :
       LET r == LogoutStep(registries[call.k], raw)
           c == [call EXCEPT
                   !.logoutRuns = IF r.ran THEN Append(@, call.k) ELSE @,
                   !.logoutFailed = IF r.failed THEN @ \cup {call.k} ELSE @]
       IN IF r.next = "continue"
            THEN /\ call' = [c EXCEPT !.k = @ + 1]
                 /\ UNCHANGED <<pc, ti>>
            ELSE Return(c)
  /\ UNCHANGED <<cfgVars, sideVars, envVars, storeVars, clock, outcome, is_new,
                 git_updated, deployment_required, remote_commit_hash, hist>>

\* The loop of docker_logout_registries ran out of registries.
DeployLogoutDone ==
  /\ pc = "dt_logout"
  /\ call.k > Len(registries)
  /\ Return(call)
  /\ UNCHANGED <<cfgVars, sideVars, envVars, storeVars, clock, outcome, is_new,
                 git_updated, deployment_required, remote_commit_hash, hist>>

\* ------------------------------------------------------------ specification
\* BranchConfig.targets: names are 1..n, deploy flags are free.
TargetLists ==
  UNION { { [i \in 1..n |-> [name |-> i, deploy |-> d[i]]] : d \in [1..n -> BOOLEAN] }
          : n \in 0..MaxTargets }

\* RepoConfig.registries: username set (private) or not (public).
RegistryLists ==
  UNION { [1..n -> [username : BOOLEAN]] : n \in 0..MaxRegistries }

\* The registry lists the whole pass is run with: none, one public, one
\* private registry.
PassRegistryLists == {rs \in RegistryLists : Len(rs) <= 1}

\* The store at process start: empty, or what load_status read back from
\* the snapshot an earlier process left (its pass number is 0).
InitialStores ==
  { [r \in {} |-> 0],
    UpdateTargetStatus(
      UpdateBranchStatus([r \in {} |-> 0], RepoName, BranchName,
        [sync_status |-> "idle", last_check_time |-> <<0>>,
         commit_hash |-> ShortHash([i \in 1..HashLen |-> 1])]),
      RepoName, BranchName, 1, "success", "Running", 0) }

\* The process has started and the scheduler is about to run a pass.
Init ==
  /\ targets \in TargetLists
  /\ registries \in PassRegistryLists
  /\ dirExists \in BOOLEAN
  /\ localHead \in (IF dirExists THEN Commits ELSE {None})
  /\ status \in InitialStores
  /\ statusFile = ToJson(status)
  /\ listeners = <<>>
  /\ clock = 0
  /\ pc = "idle"
  /\ outcome = "none"
  /\ is_new = FALSE
  /\ git_updated = FALSE
  /\ deployment_required = FALSE
  /\ remote_commit_hash = None
  /\ ti = 0
  /\ hist = NewHist
  /\ call = NewCall
  /\ rt = NoRetryCall
  /\ sched = NoSched
  /\ prev = NoPrev
  /\ fn = NoFn
  /\ NoDeployers
  /\ NoClients

Next ==
  \/ StartPass
  \/ EnsureRepoExists
  \/ EnsureRepoClone
  \/ OpenRepo
  \/ GetGitEnv
  \/ LsRemote
  \/ Compare
  \/ Pull
  \/ HealthCheck
  \/ HealthDone
  \/ SkipTarget
  \/ DeployDone
  \/ DeployTargetProbe
  \/ DeployValidate
  \/ DeploySetDeploying
  \/ DeployGetExecutable
  \/ DeployLoginBegin
  \/ DeployLoginStep
  \/ DeployLoginDone
  \/ DeployCompose
  \/ DeployFinally
  \/ DeployLogoutStep
  \/ DeployLogoutDone

Spec == Init /\ [][Next]_vars

\* ------------------------------------------------------- pass after pass
\* Largest number of passes of the pair, one after the other.
MaxPasses == 2

\* The pass met no upstream change and found every target running: ls-remote
\* gave the commit of the local HEAD and every health check said "running".
QuietPass(h) ==
  /\ h.raised = "none"
  /\ h.lsRemoteOk
  /\ ~h.needPull
  /\ Len(h.health) = Len(targets)
  /\ \A k \in DOMAIN h.health : h.health[k] = "running"

\* The pass has returned and the pair's next trigger (its timer, a webhook)
\* comes: check_and_update is about to be called again.  The working tree,
\* the store and the configuration are as the pass left them.
PassAgain ==
  /\ pc = "done"
  /\ clock < MaxPasses
  /\ pc' = "idle"
  /\ prev' = [pass |-> clock, remote |-> remote_commit_hash, store |-> status,
              quiet |-> QuietPass(hist)]
  /\ UNCHANGED <<cfgVars, rt, sched, fn, dockerVars, clientVars, envVars,
                 storeVars, clock, outcome, localVars, hist, call>>

\* The branches whose passes are followed one after the other have at most
\* one target.
InitTwo ==
  /\ Init
  /\ Len(targets) <= 1

NextTwo ==
  \/ PassAgain
  \/ Next

SpecTwo == InitTwo /\ [][NextTwo]_vars

\* ------------------------------------------------------- a pass, watched
\* A pass with one queue in the fan-out list, put there before the pass and
\* never read: it keeps every snapshot the pass fans out.
InitWatched ==
  /\ targets \in TargetLists
  /\ Len(targets) <= 1
  /\ registries \in PassRegistryLists
  /\ dirExists \in BOOLEAN
  /\ localHead \in (IF dirExists THEN Commits ELSE {None})
  /\ status \in InitialStores
  /\ statusFile = ToJson(status)
  /\ listeners = << <<>> >>
  /\ clock = 0
  /\ pc = "idle"
  /\ outcome = "none"
  /\ is_new = FALSE
  /\ git_updated = FALSE
  /\ deployment_required = FALSE
  /\ remote_commit_hash = None
  /\ ti = 0
  /\ hist = NewHist
  /\ call = NewCall
  /\ rt = NoRetryCall
  /\ sched = NoSched
  /\ prev = NoPrev
  /\ fn = NoFn
  /\ NoDeployers
  /\ NoClients

SpecWatched == InitWatched /\ [][Next]_vars

\* What makes a pass go on.  The steps in the process itself are taken; a
\* docker subprocess is run with the timeout of its class, so its step ends
\* with an answer or with TimeoutExpired.  The git steps (Repo.clone_from,
\* repo.git.ls_remote, fetch / reset / clean) are called with no timeout:
\* they end only if the git process does, so nothing is promised for them.
PassFairness ==
  /\ WF_vars(StartPass)
  /\ WF_vars(EnsureRepoExists)
  /\ WF_vars(OpenRepo)
  /\ WF_vars(GetGitEnv)
  /\ WF_vars(Compare)
  /\ WF_vars(HealthCheck)
  /\ WF_vars(HealthDone)
  /\ WF_vars(SkipTarget)
  /\ WF_vars(DeployDone)
  /\ WF_vars(DeployTargetProbe)
  /\ WF_vars(DeployValidate)
  /\ WF_vars(DeploySetDeploying)
  /\ WF_vars(DeployGetExecutable)
  /\ WF_vars(DeployLoginBegin)
  /\ WF_vars(DeployLoginStep)
  /\ WF_vars(DeployLoginDone)
  /\ WF_vars(DeployCompose)
  /\ WF_vars(DeployFinally)
  /\ WF_vars(DeployLogoutStep)
  /\ WF_vars(DeployLogoutDone)

SpecFair == Spec /\ PassFairness

\* ------------------------------------------------------------ process start
\* What statusFile is when vigilcd_status.json does not exist.
NoFile == [exists |-> FALSE]

\* What a process start finds on disk: no status file, or the snapshot the
\* process before it saved last.
PersistedFiles == {NoFile} \cup {ToJson(st) : st \in InitialStores}

\* What load_status makes of the file: os.path.exists guards the load.
LoadedFrom(file) == IF file = NoFile THEN [r \in {} |-> 0] ELSE LoadStatus(file)

\* The process is about to start: nothing is imported yet.
InitRestart ==
  /\ targets \in TargetLists
  /\ registries \in PassRegistryLists
  /\ dirExists \in BOOLEAN
  /\ localHead \in (IF dirExists THEN Commits ELSE {None})
  /\ statusFile \in PersistedFiles
  /\ status = [r \in {} |-> 0]
  /\ listeners = <<>>
  /\ clock = 0
  /\ pc = "boot"
  /\ outcome = "none"
  /\ is_new = FALSE
  /\ git_updated = FALSE
  /\ deployment_required = FALSE
  /\ remote_commit_hash = None
  /\ ti = 0
  /\ hist = NewHist
  /\ call = NewCall
  /\ rt = NoRetryCall
  /\ sched = NoSched
  /\ prev = NoPrev
  /\ fn = NoFn
  /\ NoDeployers
  /\ workers = <<>>
  /\ subs = <<>>
  /\ lsnIds = <<>>
  /\ storeHist = [NewStoreHist EXCEPT !.store0 = LoadedFrom(statusFile)]

\* Import of src.state and src.app: state_manager = StateManager(), whose
\* __init__ sets an empty status map and an empty listener list; lifespan
\* then goes straight to run_initial_sync.  Nothing calls load_status.
ProcessStart ==
  /\ pc = "boot"
  /\ status' = [r \in {} |-> 0]
  /\ listeners' = <<>>
  /\ pc' = "idle"
  /\ UNCHANGED <<cfgVars, sideVars, envVars, statusFile, clock, outcome,
                 localVars, hist, call>>

NextRestart ==
  \/ ProcessStart
  \/ Next

SpecRestart == InitRestart /\ [][NextRestart]_vars

\* deploy_target on its own: the pass has pulled and its deployment loop is
\* about to call deploy_target for the only target of the branch.
InitDeploy ==
  /\ targets = <<[name |-> 1, deploy |-> TRUE]>>
  /\ registries \in RegistryLists
  /\ dirExists = TRUE
  /\ localHead \in Commits
  /\ \E s \in InitialStores :
       status = UpdateBranchStatus(s, RepoName, BranchName,
                  [sync_status |-> "idle", last_check_time |-> <<1>>,
                   commit_hash |-> ShortHash(localHead)])
  /\ statusFile = ToJson(status)
  /\ listeners = <<>>
  /\ clock = 1
  /\ pc = "deploy"
  /\ outcome = "running"
  /\ is_new = FALSE
  /\ git_updated = TRUE
  /\ deployment_required = TRUE
  /\ remote_commit_hash = localHead
  /\ ti = 1
  /\ hist = [NewHist EXCEPT !.lsRemoteOk = TRUE, !.needPull = TRUE,
                            !.pulling = TRUE, !.pullOk = TRUE]
  /\ call = NewCall
  /\ rt = NoRetryCall
  /\ sched = NoSched
  /\ prev = NoPrev
  /\ fn = NoFn
  /\ NoDeployers
  /\ NoClients

NextDeploy ==
  \/ DeployTargetProbe
  \/ DeployValidate
  \/ DeploySetDeploying
  \/ DeployGetExecutable
  \/ DeployLoginBegin
  \/ DeployLoginStep
  \/ DeployLoginDone
  \/ DeployCompose
  \/ DeployFinally
  \/ DeployLogoutStep
  \/ DeployLogoutDone

SpecDeploy == InitDeploy /\ [][NextDeploy]_vars

\* The variables of the pass other than the store.
passVars == <<targets, registries, dirExists, localHead, clock, pc, outcome,
              is_new, git_updated, deployment_required, remote_commit_hash,
              ti, hist, call>>

\* No pass is running.
PassIdle ==
  /\ targets = <<>>
  /\ registries = <<>>
  /\ dirExists = FALSE
  /\ localHead = None
  /\ clock = 0
  /\ pc = "idle"
  /\ outcome = "none"
  /\ is_new = FALSE
  /\ git_updated = FALSE
  /\ deployment_required = FALSE
  /\ remote_commit_hash = None
  /\ ti = 0
  /\ hist = NewHist
  /\ call = NewCall

\* The wrapped function: its i-th invocation returns the value <<i>>, raises
\* a git error <<i>> or raises another exception <<i>>.
RetryFuncs ==
  { [i \in 1..MaxRetries |-> [kind |-> ks[i], value |-> <<i>>]] :
      ks \in [1..MaxRetries -> {"ok", "giterr", "other"}] }

\* _retry_with_backoff on its own: the arguments (0: not given) and the
\* scheduling configuration are free.
InitRetry ==
  /\ PassIdle
  /\ status = [r \in {} |-> 0]
  /\ statusFile = ToJson(status)
  /\ listeners = <<>>
  /\ sched = NoSched
  /\ prev = NoPrev
  /\ fn = NoFn
  /\ NoDeployers
  /\ NoClients
  /\ \E outs \in RetryFuncs, m \in 0..MaxRetries, b \in {0, 3},
        n \in 0..MaxRetries :
       rt = [NoRetryCall EXCEPT !.outs = outs, !.max_retries = m,
               !.backoff_factor = b, !.config.git_retry_count = n]

\* The call runs to its end.
RetryCall ==
  /\ ~rt.done
  /\ rt' = [rt EXCEPT !.done = TRUE,
              !.result = RetryWithBackoff(rt.outs, rt.max_retries,
                                          rt.backoff_factor, rt.config)]
  /\ UNCHANGED <<passVars, storeVars, sched, prev, fn, dockerVars, clientVars>>

NextRetry == RetryCall

SpecRetry == InitRetry /\ [][NextRetry]_vars

\* ------------------------------------- update_branch called by several threads
\* The jobs of the BackgroundScheduler and the webhook's background task run
\* check_and_update in threads of their own, and StateManager takes no lock:
\* a thread can be interrupted between any two statements of update_branch.
Workers == 1..NumWorkers

\* **kwargs of an update_branch call: <<field, value>> in the caller's order.
UpdateCalls ==
  { << <<"sync_status", "checking">>, <<"last_check_time", <<1>>>> >>,
    << <<"sync_status", "pulling">>, <<"commit_hash", <<1>>>> >>,
    << <<"sync_status", "error">>, <<"commit_hash", <<2>>>> >> }

\* The same keyword arguments as a record (a later duplicate wins).
KwRecord(kw) ==
  [f \in {kw[i][1] : i \in DOMAIN kw} |->
     LET last == CHOOSE i \in DOMAIN kw :
                   /\ kw[i][1] = f
                   /\ \A j \in DOMAIN kw : kw[j][1] = f => j <= i
     IN kw[last][2]]

\* A thread about to call update_branch(RepoName, BranchName, **kw).
\* rlive / blive: its r_status / b_status is the object the store holds (an
\* object replaced in the store by another thread is written to in vain).
\* json_data: the snapshot the thread has taken and not yet handed on.
NewWorker(kw) ==
  [kw |-> kw, pc |-> "begin", i |-> 1, rlive |-> FALSE, blive |-> FALSE,
   json_data |-> None]

\* get_repo_status: "if repo_name not in self.status", and the return when
\* the entry is there.
UbRepoCheck(w) ==
  /\ workers[w].pc = "begin"
  /\ workers' = [workers EXCEPT ![w] =
       IF RepoName \in DOMAIN status
         THEN [@ EXCEPT !.pc = "branch", !.rlive = TRUE]
         ELSE [@ EXCEPT !.pc = "repo_create"]]
  /\ storeHist' = [storeHist EXCEPT !.calls = Append(@, workers[w].kw)]
  /\ UNCHANGED <<passVars, storeVars, rt, sched, prev, fn, dockerVars, subs, lsnIds>>

\* get_repo_status: self.status[repo_name] = RepoStatus(repo_name=...); the
\* entry other threads hold is no longer the one of the store.
UbRepoCreate(w) ==
  /\ workers[w].pc = "repo_create"
  /\ status' = (RepoName :> [branches |-> [b \in {} |-> 0]]) @@ status
  /\ workers' = [v \in DOMAIN workers |->
       IF v = w THEN [workers[v] EXCEPT !.pc = "repo_get"]
       ELSE [workers[v] EXCEPT !.rlive = FALSE, !.blive = FALSE]]
  /\ UNCHANGED <<passVars, statusFile, listeners, rt, sched, prev, fn, dockerVars, subs, lsnIds, storeHist>>

\* get_repo_status: return self.status[repo_name]
UbRepoGet(w) ==
  /\ workers[w].pc = "repo_get"
  /\ workers' = [workers EXCEPT ![w] = [@ EXCEPT !.pc = "branch", !.rlive = TRUE]]
  /\ UNCHANGED <<passVars, storeVars, rt, sched, prev, fn, dockerVars, subs, lsnIds, storeHist>>

\* "if branch_name not in r_status.branches", and
\* b_status = r_status.branches[branch_name] when the entry is there.
UbBranchCheck(w) ==
  /\ workers[w].pc = "branch"
  /\ workers' = [workers EXCEPT ![w] =
       IF ~@.rlive THEN [@ EXCEPT !.pc = "setattr", !.blive = FALSE]
       ELSE IF BranchName \in DOMAIN status[RepoName].branches
         THEN [@ EXCEPT !.pc = "setattr", !.blive = TRUE]
         ELSE [@ EXCEPT !.pc = "branch_create"]]
  /\ UNCHANGED <<passVars, storeVars, rt, sched, prev, fn, dockerVars, subs, lsnIds, storeHist>>

\* r_status.branches[branch_name] = BranchStatus(branch_name=...)
UbBranchCreate(w) ==
  /\ workers[w].pc = "branch_create"
  /\ IF workers[w].rlive
       THEN /\ status' = [status EXCEPT ![RepoName].branches =
                            (BranchName :> NewBranchStatus) @@ @]
            /\ workers' = [v \in DOMAIN workers |->
                 IF v = w THEN [workers[v] EXCEPT !.pc = "branch_fetch"]
                 ELSE [workers[v] EXCEPT !.blive = FALSE]]
       ELSE /\ workers' = [workers EXCEPT ![w].pc = "branch_fetch"]
            /\ UNCHANGED status
  /\ UNCHANGED <<passVars, statusFile, listeners, rt, sched, prev, fn, dockerVars, subs, lsnIds, storeHist>>

\* b_status = r_status.branches[branch_name]
UbBranchFetch(w) ==
  /\ workers[w].pc = "branch_fetch"
  /\ workers' = [workers EXCEPT ![w] =
       [@ EXCEPT !.pc = "setattr", !.blive = workers[w].rlive]]
  /\ UNCHANGED <<passVars, storeVars, rt, sched, prev, fn, dockerVars, subs, lsnIds, storeHist>>

\* One iteration of "for key, value in kwargs.items(): setattr(...)".
UbSetAttr(w) ==
  /\ workers[w].pc = "setattr"
  /\ LET me == workers[w] IN
       IF me.i > Len(me.kw)
         THEN /\ workers' = [workers EXCEPT ![w].pc = "notify"]
              /\ UNCHANGED status
         ELSE /\ workers' = [workers EXCEPT ![w].i = @ + 1]
              /\ IF me.blive
                   THEN status' = [status EXCEPT
                          ![RepoName].branches[BranchName][me.kw[me.i][1]] =
                             me.kw[me.i][2]]
                   ELSE UNCHANGED status
  /\ UNCHANGED <<passVars, statusFile, listeners, rt, sched, prev, fn, dockerVars, subs, lsnIds, storeHist>>

\* notify_listeners: data = {...}; json_data = json.dumps(data, default=str).
\* The snapshot is taken here; another thread can run before it is queued.
UbNotify(w) ==
  /\ workers[w].pc = "notify"
  /\ workers' = [workers EXCEPT ![w] =
                   [@ EXCEPT !.pc = "notify_put", !.json_data = ToJson(status)]]
  /\ UNCHANGED <<passVars, storeVars, rt, sched, prev, fn, dockerVars, subs, lsnIds, storeHist>>

\* notify_listeners: for queue in self._listeners: queue.put_nowait(json_data)
UbNotifyPut(w) ==
  /\ workers[w].pc = "notify_put"
  /\ listeners' = PutAll(listeners, workers[w].json_data)
  /\ storeHist' = [storeHist EXCEPT !.fanout = Append(@, workers[w].json_data)]
  /\ workers' = [workers EXCEPT ![w].pc = "save"]
  /\ UNCHANGED <<passVars, status, statusFile, rt, sched, prev, fn, dockerVars, subs, lsnIds>>

\* _save_status: open(STATUS_FILE, "w") and self._to_json_serializable().
\* The snapshot is taken here; another thread can run before it is written.
UbSave(w) ==
  /\ workers[w].pc = "save"
  /\ workers' = [workers EXCEPT ![w] =
                   [@ EXCEPT !.pc = "save_write", !.json_data = ToJson(status)]]
  /\ UNCHANGED <<passVars, storeVars, rt, sched, prev, fn, dockerVars, subs, lsnIds, storeHist>>

\* _save_status: json.dump(data, f) and the close of the file.
UbSaveWrite(w) ==
  /\ workers[w].pc = "save_write"
  /\ statusFile' = workers[w].json_data
  /\ workers' = [workers EXCEPT ![w].pc = "done"]
  /\ UNCHANGED <<passVars, status, listeners, rt, sched, prev, fn, dockerVars, subs, lsnIds, storeHist>>

\* A stream() generator nobody has iterated yet.
NewSub == [pc |-> "new", received |-> <<>>, since |-> 0, store |-> <<>>]

\* Every worker is about to make one update_branch call on the same branch;
\* one consumer of stream() is waiting at its queue.
InitStore ==
  /\ PassIdle
  /\ status \in InitialStores
  /\ statusFile = ToJson(status)
  /\ listeners = << <<>> >>
  /\ rt = NoRetryCall
  /\ sched = NoSched
  /\ prev = NoPrev
  /\ fn = NoFn
  /\ NoDeployers
  /\ workers \in [Workers -> {NewWorker(kw) : kw \in UpdateCalls}]
  /\ subs = << [NewSub EXCEPT !.pc = "waiting"] >>
  /\ lsnIds = <<1>>
  /\ storeHist = [NewStoreHist EXCEPT !.store0 = status]

NextStore ==
  \E w \in Workers :
    \/ UbRepoCheck(w)
    \/ UbRepoCreate(w)
    \/ UbRepoGet(w)
    \/ UbBranchCheck(w)
    \/ UbBranchCreate(w)
    \/ UbBranchFetch(w)
    \/ UbSetAttr(w)
    \/ UbNotify(w)
    \/ UbNotifyPut(w)
    \/ UbSave(w)
    \/ UbSaveWrite(w)

SpecStore == InitStore /\ [][NextStore]_vars

\* --------------------------------------------------- StateManager.stream()
Subs == 1..NumSubs

\* A second repository next to the worker's.
OtherRepo == "other"
Repos == {RepoName, OtherRepo}

\* The pass variables other than the clock: time passes between store calls.
idleVars == <<targets, registries, dirExists, localHead, pc, outcome,
              is_new, git_updated, deployment_required, remote_commit_hash,
              ti, hist, call>>

\* An update_branch call, start to end, by a caller of the store.
StoreUpdateBranch ==
  /\ Len(storeHist.calls) < MaxCalls
  /\ \E repo \in Repos, kw \in UpdateCalls :
       /\ update_branch(repo, BranchName, KwRecord(kw))
       /\ storeHist' = [storeHist EXCEPT
            !.calls = Append(@, [kind |-> "branch", repo |-> repo,
                                 kw |-> KwRecord(kw)]),
            !.fanout = Append(@, ToJson(status'))]
  /\ clock' = clock + 1
  /\ UNCHANGED <<idleVars, rt, sched, prev, fn, dockerVars, workers, subs, lsnIds>>

\* An update_target call, start to end, by a caller of the store.
StoreUpdateTarget ==
  /\ Len(storeHist.calls) < MaxCalls
  /\ \E repo \in Repos, st \in {"success", "error"} :
       /\ update_target(repo, BranchName, 1, st, "")
       /\ storeHist' = [storeHist EXCEPT
            !.calls = Append(@, [kind |-> "target", repo |-> repo,
                                 status |-> st]),
            !.fanout = IF BranchExists(status, repo, BranchName)
                         THEN Append(@, ToJson(status')) ELSE @]
  /\ clock' = clock + 1
  /\ UNCHANGED <<idleVars, rt, sched, prev, fn, dockerVars, workers, subs, lsnIds>>

\* The place of subscriber s's queue in the fan-out list (0: not in it).
QueueIndex(s) ==
  IF \E i \in DOMAIN lsnIds : lsnIds[i] = s
    THEN CHOOSE i \in DOMAIN lsnIds : lsnIds[i] = s
    ELSE 0

\* list.remove(x): the list without its element at place i.
RemoveAt(seq, i) ==
  [j \in 1..(Len(seq) - 1) |-> IF j < i THEN seq[j] ELSE seq[j + 1]]

\* Mutant of QueueGet: the newest item is taken first.
QueueGet_Lifo(q) == [item |-> q[Len(q)], rest |-> SubSeq(q, 1, Len(q) - 1)]

\* asyncio.Queue.get on a queue that is not empty: first in, first out.
QueueGet(q) == [item |-> Head(q), rest |-> Tail(q)]

\* f"data: {data}\n\n": the server-sent-event frame around a snapshot.
SseFrame(data) == <<"data: ", data, "\n\n">>

\* First __anext__: queue = asyncio.Queue(); self._listeners.append(queue)
StreamStart(s) ==
  /\ subs[s].pc = "new"
  /\ listeners' = Append(listeners, <<>>)
  /\ lsnIds' = Append(lsnIds, s)
  /\ subs' = [subs EXCEPT ![s].pc = "subscribed",
                           ![s].since = Len(storeHist.fanout)]
  /\ UNCHANGED <<passVars, status, statusFile, rt, sched, prev, fn, dockerVars, workers, storeHist>>

\* initial_data = json.dumps(...); yield f"data: {initial_data}\n\n", outside
\* the try.  The callers of the store are other threads, so a store call may
\* have come between the append and this snapshot.
StreamInitial(s) ==
  /\ subs[s].pc = "subscribed"
  /\ subs' = [subs EXCEPT ![s].pc = "yield0",
                           ![s].received = <<SseFrame(ToJson(status))>>,
                           ![s].store = status]
  /\ UNCHANGED <<passVars, storeVars, rt, sched, prev, fn, dockerVars, workers, lsnIds, storeHist>>

\* The consumer asks for the next item: the generator leaves its yield and
\* reaches "await queue.get()" inside the try.
StreamResume(s) ==
  /\ subs[s].pc \in {"yield0", "yield"}
  /\ subs' = [subs EXCEPT ![s].pc = "waiting"]
  /\ UNCHANGED <<passVars, storeVars, rt, sched, prev, fn, dockerVars, workers, lsnIds, storeHist>>

\* data = await queue.get(); yield data
StreamGet(s) ==
  /\ subs[s].pc = "waiting"
  /\ QueueIndex(s) # 0
  /\ listeners[QueueIndex(s)] # <<>>
  /\ LET g == QueueGet(listeners[QueueIndex(s)]) IN
       /\ listeners' = [listeners EXCEPT ![QueueIndex(s)] = g.rest]
       /\ subs' = [subs EXCEPT ![s].pc = "yield",
                                ![s].received = Append(@, SseFrame(g.item))]
  /\ UNCHANGED <<passVars, status, statusFile, rt, sched, prev, fn, dockerVars, workers, lsnIds, storeHist>>

\* The consumer's task is cancelled while the generator awaits queue.get():
\* except asyncio.CancelledError: self._listeners.remove(queue)
StreamCancel(s) ==
  /\ subs[s].pc = "waiting"
  /\ QueueIndex(s) # 0
  /\ listeners' = RemoveAt(listeners, QueueIndex(s))
  /\ lsnIds' = RemoveAt(lsnIds, QueueIndex(s))
  /\ subs' = [subs EXCEPT ![s].pc = "closed"]
  /\ UNCHANGED <<passVars, status, statusFile, rt, sched, prev, fn, dockerVars, workers, storeHist>>

\* The stream is closed while the generator is not running: never started,
\* or suspended at a yield, where aclose() raises GeneratorExit, which no
\* except clause of stream() catches.
StreamClose(s) ==
  /\ subs[s].pc \in {"new", "yield0", "yield"}
  /\ subs' = [subs EXCEPT ![s].pc = "closed"]
  /\ UNCHANGED <<passVars, storeVars, rt, sched, prev, fn, dockerVars, workers, lsnIds, storeHist>>

\* The store as a process start left it, no subscriber yet.
InitStream ==
  /\ PassIdle
  /\ status \in InitialStores
  /\ statusFile = ToJson(status)
  /\ listeners = <<>>
  /\ rt = NoRetryCall
  /\ sched = NoSched
  /\ prev = NoPrev
  /\ fn = NoFn
  /\ NoDeployers
  /\ workers = <<>>
  /\ subs = [s \in Subs |-> NewSub]
  /\ lsnIds = <<>>
  /\ storeHist = [NewStoreHist EXCEPT !.store0 = status]

NextStream ==
  \/ StoreUpdateBranch
  \/ StoreUpdateTarget
  \/ \E s \in Subs :
       \/ StreamStart(s)
       \/ StreamInitial(s)
       \/ StreamResume(s)
       \/ StreamGet(s)
       \/ StreamCancel(s)
       \/ StreamClose(s)

SpecStream == InitStream /\ [][NextStream]_vars

\* ------------------------------------------------- what triggers the passes
\* The configured (repo, branch) pairs, in the order of the configuration.
Pairs == 1..NumPairs

\* A pass of pair p has returned.
Finished(done, p) == [done EXCEPT ![p] = Min(@ + 1, MaxDone)]

\* A pass of pair p can return: its external processes answer.
Answers(p) == p \notin sched.blocked

\* Number of check_and_update calls for pair p that are in flight.
InFlight(p) ==
  (IF sched.running = p THEN 1 ELSE 0)
  + (IF sched.job[p] THEN 1 ELSE 0)
  + sched.hooks[p]

\* run_initial_sync, one iteration of its loops: a branch with sync disabled
\* is passed over, for any other check_and_update is called in the thread
\* of lifespan itself.
InitialSyncStart ==
  /\ sched.phase = "startup"
  /\ sched.running = 0
  /\ sched.next <= NumPairs
  /\ sched' = IF sched.enabled[sched.next]
                THEN [sched EXCEPT !.running = sched.next]
                ELSE [sched EXCEPT !.next = @ + 1]
  /\ UNCHANGED <<passVars, storeVars, rt, prev, fn, dockerVars, clientVars>>

\* ... the call returns (or raises, which is logged) and the loop goes on.
InitialSyncFinish ==
  /\ sched.phase = "startup"
  /\ sched.running # 0
  /\ Answers(sched.running)
  /\ sched' = [sched EXCEPT !.running = 0, !.next = @ + 1,
                            !.done = Finished(@, sched.running)]
  /\ UNCHANGED <<passVars, storeVars, rt, prev, fn, dockerVars, clientVars>>

\* lifespan after run_initial_sync: schedule_all_repo_jobs(), scheduler.start(),
\* and the application begins to serve requests.
StartScheduler ==
  /\ sched.phase = "startup"
  /\ sched.running = 0
  /\ sched.next = NumPairs + 1
  /\ sched' = [sched EXCEPT !.phase = "serving"]
  /\ UNCHANGED <<passVars, storeVars, rt, prev, fn, dockerVars, clientVars>>

\* The interval of pair p's job elapses.  Jobs exist for the pairs with sync
\* enabled only; max_instances=1 makes the scheduler skip the run while the
\* job's previous run has not returned.  The run has a thread of its own.
TimerFire(p) ==
  /\ sched.phase = "serving"
  /\ sched.enabled[p]
  /\ ~sched.job[p]
  /\ sched' = [sched EXCEPT !.job[p] = TRUE]
  /\ UNCHANGED <<passVars, storeVars, rt, prev, fn, dockerVars, clientVars>>

\* sync_single_repo_branch returns.
JobFinish(p) ==
  /\ sched.job[p]
  /\ Answers(p)
  /\ sched' = [sched EXCEPT !.job[p] = FALSE, !.done = Finished(@, p)]
  /\ UNCHANGED <<passVars, storeVars, rt, prev, fn, dockerVars, clientVars>>

\* github_webhook for a push to pair p: background_tasks.add_task(
\* service.check_and_update, ...), run in a thread after the response.
\* Neither sync_enabled nor a running pass of the pair is looked at.
Webhook(p) ==
  /\ sched.phase = "serving"
  /\ sched.hooks[p] < MaxHooks
  /\ sched' = [sched EXCEPT !.hooks[p] = @ + 1]
  /\ UNCHANGED <<passVars, storeVars, rt, prev, fn, dockerVars, clientVars>>

\* The background task of a webhook returns.
HookFinish(p) ==
  /\ sched.hooks[p] > 0
  /\ Answers(p)
  /\ sched' = [sched EXCEPT !.hooks[p] = @ - 1, !.done = Finished(@, p)]
  /\ UNCHANGED <<passVars, storeVars, rt, prev, fn, dockerVars, clientVars>>

\* lifespan is entered: nothing runs yet.  Which branches have sync enabled
\* is configuration; which pairs' external processes never answer (with no
\* timeout configured) is the environment.
InitSched ==
  /\ PassIdle
  /\ status = [r \in {} |-> 0]
  /\ statusFile = ToJson(status)
  /\ listeners = <<>>
  /\ rt = NoRetryCall
  /\ prev = NoPrev
  /\ fn = NoFn
  /\ NoDeployers
  /\ NoClients
  /\ \E e \in [Pairs -> BOOLEAN], b \in SUBSET Pairs :
       sched = [phase |-> "startup", next |-> 1, running |-> 0,
                job |-> [p \in Pairs |-> FALSE],
                hooks |-> [p \in Pairs |-> 0],
                done |-> [p \in Pairs |-> 0],
                enabled |-> e, blocked |-> b]

NextSched ==
  \/ InitialSyncStart
  \/ InitialSyncFinish
  \/ StartScheduler
  \/ \E p \in Pairs :
       \/ TimerFire(p)
       \/ JobFinish(p)
       \/ Webhook(p)
       \/ HookFinish(p)

SpecSched == InitSched /\ [][NextSched]_vars

\* The scheduling of threads: a step of lifespan that can be taken is taken,
\* a timer fires, and a pass whose external processes answer returns.
\* Webhooks come as the outside world sends them.
SchedFairness ==
  /\ WF_vars(InitialSyncStart)
  /\ WF_vars(InitialSyncFinish)
  /\ WF_vars(StartScheduler)
  /\ \A p \in Pairs :
       /\ WF_vars(TimerFire(p))
       /\ WF_vars(JobFinish(p))
       /\ WF_vars(HookFinish(p))

SpecSchedFair == SpecSched /\ SchedFairness

\* ------------------------------------ check_actual_target_state on its own
\* Nothing but the function under study is in use.
AtRest ==
  /\ PassIdle
  /\ status = [r \in {} |-> 0]
  /\ statusFile = ToJson(status)
  /\ listeners = <<>>
  /\ rt = NoRetryCall
  /\ sched = NoSched
  /\ prev = NoPrev
  /\ NoDeployers
  /\ NoClients

restVars == <<passVars, storeVars, rt, sched, prev, dockerVars, clientVars>>

\* Calls of check_actual_target_state one after the other, as the health loop
\* of a pass makes them; each call is kept with what docker answered.
InitCheck ==
  /\ AtRest
  /\ fn = [name |-> "check_actual_target_state", probe |-> None, checks |-> <<>>]

\* "if not self.is_docker_daemon_running(): return 'daemon_unavailable'"
CheckProbe ==
  /\ fn.name = "check_actual_target_state"
  /\ fn.probe = None
  /\ Len(fn.checks) < MaxChecks
  /\ \E raw \in ProbeRaws :
       IF is_docker_daemon_running(raw)
         THEN fn' = [fn EXCEPT !.probe = <<raw>>]
         ELSE fn' = [fn EXCEPT !.checks =
                       Append(@, [probe |-> raw, ps |-> None,
                                  result |-> check_actual_target_state(raw, None)])]
  /\ UNCHANGED restVars

\* The try block: "docker compose ps" and the reading of what it printed.
CheckPs ==
  /\ fn.name = "check_actual_target_state"
  /\ fn.probe # None
  /\ \E ps \in PsRaws :
       fn' = [fn EXCEPT !.probe = None,
                !.checks =
                  Append(@, [probe |-> fn.probe[1], ps |-> ps,
                             result |-> check_actual_target_state(fn.probe[1], ps)])]
  /\ UNCHANGED restVars

NextCheck == CheckProbe \/ CheckPs

SpecCheck == InitCheck /\ [][NextCheck]_vars

\* ------------------------------------------------- the compose project name
\* Names are strings: sequences of characters.  A lower-case letter, an
\* upper-case letter, a hyphen and an underscore stand for the characters
\* that lower() and replace("-", "_") tell apart or identify.
NameChars == {"a", "A", "-", "_"}

RECURSIVE StringsUpTo(_)
StringsUpTo(n) ==
  IF n = 0 THEN {<<>>}
  ELSE LET shorter == StringsUpTo(n - 1)
       IN shorter \cup { Append(w, c) : w \in shorter, c \in NameChars }

\* name: str (no validation in models.py): any non-empty string.
ConfigNames == StringsUpTo(MaxNameLen) \ {<<>>}

\* The names of the repositories and of the branches the triples are drawn
\* from.
OuterNames == {<<"a">>, <<"a", "_", "a">>}

\* str.lower()
LowerChar(c) == IF c = "A" THEN "a" ELSE c
Lower(w) == [i \in 1..Len(w) |-> LowerChar(w[i])]

\* str.replace("-", "_")
ReplaceHyphens(w) == [i \in 1..Len(w) |-> IF w[i] = "-" THEN "_" ELSE w[i]]

\* f"{repo_conf.name}_{branch_conf.name}_{target.name}".lower().replace("-", "_")
ProjectName(repo, branch, target) ==
  ReplaceHyphens(Lower(repo \o <<"_">> \o branch \o <<"_">> \o target))

Triples == [repo : OuterNames, branch : OuterNames, target : ConfigNames]

\* Two configured (repo, branch, target) triples whose project names are
\* about to be computed.
InitProject ==
  /\ AtRest
  /\ \E a \in Triples, b \in Triples :
       fn = [name |-> "project_name", a |-> a, b |-> b, done |-> FALSE,
             pa |-> <<>>, pb |-> <<>>]

\* deploy_target and check_actual_target_state compute the name of each.
ComputeProjectNames ==
  /\ fn.name = "project_name"
  /\ ~fn.done
  /\ fn' = [fn EXCEPT !.done = TRUE,
              !.pa = ProjectName(fn.a.repo, fn.a.branch, fn.a.target),
              !.pb = ProjectName(fn.b.repo, fn.b.branch, fn.b.target)]
  /\ UNCHANGED restVars

NextProject == ComputeProjectNames

SpecProject == InitProject /\ [][NextProject]_vars

\* ------------------------------------------------ docker_env_validator.py
\* Texts are sequences of characters.  "A" and "B" stand for the characters
\* of the class [A-Z0-9_], "c" for any letter outside it.
UpperChars == {"A", "B"}

\* The longest run of [A-Z0-9_] characters that starts at position i.
RECURSIVE UpperRun(_, _)
UpperRun(text, i) ==
  IF i > Len(text) \/ text[i] \notin UpperChars THEN <<>>
  ELSE <<text[i]>> \o UpperRun(text, i + 1)

\* re.compile(r"\$\{([A-Z0-9_]+)\}").findall(text)
FindBraced(text) ==
  { UpperRun(text, j + 2) :
      j \in { i \in 1..Len(text) :
                /\ text[i] = "$"
                /\ i + 1 <= Len(text) /\ text[i + 1] = "{"
                /\ UpperRun(text, i + 2) # <<>>
                /\ LET after == i + 2 + Len(UpperRun(text, i + 2))
                   IN after <= Len(text) /\ text[after] = "}" } }

\* re.compile(r"\$([A-Z0-9_]+)").findall(text)
FindBare(text) ==
  { UpperRun(text, j + 1) :
      j \in { i \in 1..Len(text) :
                text[i] = "$" /\ UpperRun(text, i + 1) # <<>> } }

\* for pattern in self.ENV_VAR_PATTERNS: required_vars.update(matches)
_extract_vars_from_string(text) == FindBraced(text) \cup FindBare(text)

\* The recursive search reaches every string value of the manifest.
_extract_required_env_vars(texts) ==
  UNION { _extract_vars_from_string(texts[i]) : i \in 1..Len(texts) }

\* str.strip()
RECURSIVE LStrip(_)
LStrip(w) == IF w # <<>> /\ Head(w) = " " THEN LStrip(Tail(w)) ELSE w
RECURSIVE RStrip(_)
RStrip(w) ==
  IF w # <<>> /\ w[Len(w)] = " " THEN RStrip(SubSeq(w, 1, Len(w) - 1)) ELSE w
Strip(w) == RStrip(LStrip(w))

\* line.split("=", 1)[0]: what stands before the first "=".
RECURSIVE BeforeEq(_)
BeforeEq(w) ==
  IF w = <<>> \/ Head(w) = "=" THEN <<>> ELSE <<Head(w)>> \o BeforeEq(Tail(w))

HasEq(w) == \E i \in 1..Len(w) : w[i] = "="

\* _load_env_file: the keys of the KEY=VALUE lines; empty lines and comments
\* are skipped; a file that cannot be read gives no variables.
_load_env_file(file) ==
  IF file.unreadable THEN {}
  ELSE { Strip(BeforeEq(Strip(file.lines[i]))) :
           i \in { k \in 1..Len(file.lines) :
                     LET line == Strip(file.lines[k])
                     IN line # <<>> /\ Head(line) # "#" /\ HasEq(line) } }

\* _check_missing_vars: os.environ and the .env file of the working directory.
_check_missing_vars(required_vars, environ, dotenv) ==
  required_vars \ (environ \cup (IF dotenv.exists THEN _load_env_file(dotenv)
                                 ELSE {}))

\* _check_env_files: one warning for each referenced env_file that does not
\* exist, in the iteration order of the set.
EnvFileWarnings(order) ==
  [i \in 1..Len(order) |-> [kind |-> "env_file_not_found", what |-> order[i]]]

\* Mutant of Validate: a missing env_file is warned about but tolerated.
Validate_EnvFileTolerated(manifest, environ, dotenv, order) ==
  IF manifest.parse # "dict"
    THEN [is_valid |-> FALSE,
          warnings |-> << [kind |-> "validation_error", what |-> manifest.parse] >>]
    ELSE LET missing_vars ==
               _check_missing_vars(_extract_required_env_vars(manifest.texts),
                                   environ, dotenv)
             warnings ==
               EnvFileWarnings(order)
                 \o (IF missing_vars # {}
                       THEN << [kind |-> "missing_vars", what |-> missing_vars] >>
                       ELSE <<>>)
         IN [is_valid |-> missing_vars = {}, warnings |-> warnings]

\* DockerComposeEnvValidator.validate: any exception (a manifest that cannot
\* be read or parsed, or whose top level is not a mapping) gives one
\* "Validation error" warning.
Validate(manifest, environ, dotenv, order) ==
  IF manifest.parse # "dict"
    THEN [is_valid |-> FALSE,
          warnings |-> << [kind |-> "validation_error", what |-> manifest.parse] >>]
    ELSE LET missing_vars ==
               _check_missing_vars(_extract_required_env_vars(manifest.texts),
                                   environ, dotenv)
             warnings ==
               EnvFileWarnings(order)
                 \o (IF missing_vars # {}
                       THEN << [kind |-> "missing_vars", what |-> missing_vars] >>
                       ELSE <<>>)
         IN [is_valid |-> Len(warnings) = 0, warnings |-> warnings]

\* The constructor raises EnvValidationError when the manifest is not there.
validate_docker_compose_env(manifest, environ, dotenv, order) ==
  IF ~manifest.exists
    THEN [is_valid |-> FALSE,
          warnings |-> << [kind |-> "compose_file_not_found", what |-> "manifest"] >>]
    ELSE Validate(manifest, environ, dotenv, order)

\* What a manifest is made of: variable references in its string values.
\* Names are the upper-case "A" and "B" and the lower-case "c".
VarNames == {<<"A">>, <<"B">>, <<"c">>}
References == [form : {"braced", "bare", "default"}, var : VarNames]

\* The string value a reference stands in: KEY=${VAR}, KEY=$VAR and
\* KEY=${VAR:-default}, as in the manifests of test_docker_env_validator.py.
RenderRef(r) ==
  <<"c", "=">> \o
    (CASE r.form = "braced" -> <<"$", "{">> \o r.var \o <<"}">>
       [] r.form = "bare" -> <<"$">> \o r.var
       [] r.form = "default" -> <<"$", "{">> \o r.var \o <<":", "-", "c", "}">>)

RECURSIVE SeqsUpTo(_, _)
SeqsUpTo(S, n) ==
  IF n = 0 THEN {<<>>}
  ELSE LET shorter == SeqsUpTo(S, n - 1)
       IN shorter \cup { Append(q, x) : q \in shorter, x \in S }

EnvFileNames == {"a.env", "b.env"}

\* A manifest: absent, unreadable, not YAML, YAML but not a mapping, or a
\* mapping with references and env_file entries (each file there or not).
Manifests ==
  [exists : {FALSE}, parse : {"none"}, refs : {<<>>}, texts : {<<>>},
   env_files : {{}}, env_files_missing : {{}}]
  \cup [exists : {TRUE}, parse : {"ioerr", "yamlerr", "nondict"}, refs : {<<>>},
        texts : {<<>>}, env_files : {{}}, env_files_missing : {{}}]
  \cup { [exists |-> TRUE, parse |-> "dict", refs |-> refs,
          texts |-> [i \in 1..Len(refs) |-> RenderRef(refs[i])],
          env_files |-> fs, env_files_missing |-> ms] :
           refs \in SeqsUpTo(References, MaxRefs),
           fs \in SUBSET EnvFileNames, ms \in SUBSET EnvFileNames }

\* Lines of a .env file: an assignment, a comment, an indented assignment,
\* a line without "=".
DotEnvLines ==
  [kind : {"assign", "comment", "indented", "bare"}, key : {<<"A">>, <<"c">>}]

RenderLine(l) ==
  CASE l.kind = "assign" -> l.key \o <<"=", "c">>
    [] l.kind = "comment" -> <<"#">> \o l.key \o <<"=", "c">>
    [] l.kind = "indented" -> <<" ">> \o l.key \o <<" ", "=", "c", " ">>
    [] l.kind = "bare" -> l.key

DotEnvFiles ==
  [exists : {FALSE}, unreadable : {FALSE}, src : {<<>>}, lines : {<<>>}]
  \cup [exists : {TRUE}, unreadable : {TRUE}, src : {<<>>}, lines : {<<>>}]
  \cup { [exists |-> TRUE, unreadable |-> FALSE, src |-> ls,
          lines |-> [i \in 1..Len(ls) |-> RenderLine(ls[i])]] :
           ls \in SeqsUpTo(DotEnvLines, 1) }

Environs == SUBSET {<<"B">>, <<"c">>}

\* The enumerations of a set, each element once.
Orders(S) ==
  { q \in SeqsUpTo(S, Cardinality(S)) :
      Len(q) = Cardinality(S) /\ {q[i] : i \in 1..Len(q)} = S }

\* A manifest in a working directory, os.environ and the .env file there.
InitValidate ==
  /\ AtRest
  /\ \E m \in Manifests, e \in Environs, d \in DotEnvFiles :
       /\ m.env_files_missing \subseteq m.env_files
       /\ fn = [name |-> "validate_docker_compose_env", manifest |-> m,
                environ |-> e, dotenv |-> d, done |-> FALSE,
                result |-> [is_valid |-> FALSE, warnings |-> <<>>]]

\* validate_docker_compose_env(compose_file, working_dir) runs to its end.
ValidateCall ==
  /\ fn.name = "validate_docker_compose_env"
  /\ ~fn.done
  /\ \E order \in Orders(fn.manifest.env_files_missing) :
       fn' = [fn EXCEPT !.done = TRUE,
                !.result = validate_docker_compose_env(fn.manifest, fn.environ,
                                                       fn.dotenv, order)]
  /\ UNCHANGED restVars

NextValidate == ValidateCall

SpecValidate == InitValidate /\ [][NextValidate]_vars

\* ------------------------------------------------- ensure_repo on its own
\* Mutant of CloneCleanup: a failed clone leaves the directory behind.
CloneCleanup_Keep(dir, raw) == IF raw.kind = "done" THEN TRUE ELSE dir

\* The working directory after one invocation of clone(): a clone that
\* worked filled it; after any exception,
\* "if os.path.exists(repo_path): shutil.rmtree(repo_path)".
CloneCleanup(dir, raw) == IF raw.kind = "done" THEN TRUE ELSE FALSE

\* ensure_repo(repo_conf, branch_conf) with the working directory there or
\* not, the configured git_retry_count, and what each clone would meet.
InitEnsure ==
  /\ AtRest
  /\ \E d \in BOOLEAN, n \in 0..MaxRetries, outs \in [1..MaxRetries -> CloneRaws] :
       fn = [name |-> "ensure_repo", git_retry_count |-> n, outs |-> outs,
             dir |-> d, pc |-> "start", attempt |-> 0, last |-> "none",
             result |-> None]

\* "if os.path.exists(repo_path): return False, repo_path", else makedirs.
EnsureExists ==
  /\ fn.name = "ensure_repo"
  /\ fn.pc = "start"
  /\ IF fn.dir
       THEN fn' = [fn EXCEPT !.pc = "returned", !.result = [is_new |-> FALSE]]
       ELSE fn' = [fn EXCEPT !.pc = "retry", !.dir = TRUE]
  /\ UNCHANGED restVars

\* One turn of the loop of _retry_with_backoff around clone().
CloneAttempt ==
  /\ fn.name = "ensure_repo"
  /\ fn.pc = "retry"
  /\ fn.attempt < fn.git_retry_count
  /\ LET raw == fn.outs[fn.attempt + 1]
         r == clone(raw)
         dir == CloneCleanup(fn.dir, raw)
     IN IF r.kind = "ok"
          THEN fn' = [fn EXCEPT !.pc = "returned", !.dir = dir, !.last = "ok",
                        !.attempt = @ + 1, !.result = [is_new |-> TRUE]]
          ELSE IF Recoverable(r.kind) /\ fn.attempt = fn.git_retry_count - 1
            THEN fn' = [fn EXCEPT !.pc = "raised", !.dir = dir, !.last = r.kind,
                          !.attempt = @ + 1, !.result = [exc |-> r.kind]]
          ELSE IF Recoverable(r.kind)
            THEN fn' = [fn EXCEPT !.dir = dir, !.last = r.kind, !.attempt = @ + 1]
          ELSE fn' = [fn EXCEPT !.pc = "raised", !.dir = dir, !.last = r.kind,
                        !.attempt = @ + 1, !.result = [exc |-> r.kind]]
  /\ UNCHANGED restVars

\* range(max_retries) is used up without a return or a raise: the wrapper
\* returns None and ensure_repo returns (True, repo_path).
CloneNotTried ==
  /\ fn.name = "ensure_repo"
  /\ fn.pc = "retry"
  /\ fn.attempt >= fn.git_retry_count
  /\ fn' = [fn EXCEPT !.pc = "returned", !.result = [is_new |-> TRUE]]
  /\ UNCHANGED restVars

NextEnsure == EnsureExists \/ CloneAttempt \/ CloneNotTried

SpecEnsure == InitEnsure /\ [][NextEnsure]_vars

\* --------------------------------- deploy_target by several workers at once
\* The scheduler's thread pool runs the jobs of different (repo, branch)
\* pairs side by side; the branches of one repository share
\* repo_conf.registries, and every "docker login" / "docker logout" works on
\* the one credential store of the docker client (the subprocess
\* environment is a copy of os.environ for every worker).
Deployers == 1..NumDeployers

NewDeployer == [pc |-> "login", k |-> 1, login_successful |-> FALSE]

InitShared ==
  /\ targets = <<>>
  /\ registries \in RegistryLists
  /\ dirExists = FALSE
  /\ localHead = None
  /\ clock = 0
  /\ pc = "idle"
  /\ outcome = "none"
  /\ is_new = FALSE
  /\ git_updated = FALSE
  /\ deployment_required = FALSE
  /\ remote_commit_hash = None
  /\ ti = 0
  /\ hist = NewHist
  /\ call = NewCall
  /\ status = [r \in {} |-> 0]
  /\ statusFile = ToJson(status)
  /\ listeners = <<>>
  /\ rt = NoRetryCall
  /\ sched = NoSched
  /\ prev = NoPrev
  /\ fn = NoFn
  /\ NoClients
  /\ creds = {}
  /\ deployers = [w \in Deployers |-> NewDeployer]

sharedVars == <<passVars, storeVars, rt, sched, prev, fn, clientVars>>

\* One iteration of the loop of docker_login_registries in worker w: a
\* login that worked stores the registry's credentials.
SharedLoginStep(w) ==
  /\ deployers[w].pc = "login"
  /\ deployers[w].k <= Len(registries)
  /\ \E pwSet \in BOOLEAN, raw \in LoginRaws :
       LET k == deployers[w].k
           r == LoginStep(registries[k], pwSet, raw)
       IN /\ creds' = IF r.ok THEN creds \cup {k} ELSE creds
          /\ deployers' =
               [deployers EXCEPT ![w] =
                  IF r.next = "continue" THEN [@ EXCEPT !.k = k + 1]
                  ELSE [@ EXCEPT !.pc = "done"]]
  /\ UNCHANGED sharedVars

\* docker_login_registries returned True: login_successful = True and
\* subprocess.run(compose up) starts.
SharedComposeStart(w) ==
  /\ deployers[w].pc = "login"
  /\ deployers[w].k > Len(registries)
  /\ deployers' = [deployers EXCEPT ![w] =
                     [@ EXCEPT !.pc = "composing", !.login_successful = TRUE]]
  /\ UNCHANGED <<sharedVars, creds>>

\* compose up ends, one way or another; the finally block begins its logout.
SharedComposeEnd(w) ==
  /\ deployers[w].pc = "composing"
  /\ deployers' = [deployers EXCEPT ![w] = [@ EXCEPT !.pc = "logout", !.k = 1]]
  /\ UNCHANGED <<sharedVars, creds>>

\* One iteration of the loop of docker_logout_registries in worker w: a
\* logout that worked removes the registry's credentials.
SharedLogoutStep(w) ==
  /\ deployers[w].pc = "logout"
  /\ deployers[w].k <= Len(registries)
  /\ \E raw \in LogoutRaws :
       LET k == deployers[w].k
           r == LogoutStep(registries[k], raw)
       IN /\ creds' = IF r.ran /\ ~r.failed THEN creds \ {k} ELSE creds
          /\ deployers' = [deployers EXCEPT ![w] = [@ EXCEPT !.k = k + 1]]
  /\ UNCHANGED sharedVars

\* deploy_target returns.
SharedReturn(w) ==
  /\ deployers[w].pc = "logout"
  /\ deployers[w].k > Len(registries)
  /\ deployers' = [deployers EXCEPT ![w] = [@ EXCEPT !.pc = "done"]]
  /\ UNCHANGED <<sharedVars, creds>>

NextShared ==
  \E w \in Deployers :
    \/ SharedLoginStep(w)
    \/ SharedComposeStart(w)
    \/ SharedComposeEnd(w)
    \/ SharedLogoutStep(w)
    \/ SharedReturn(w)

SpecShared == InitShared /\ [][NextShared]_vars

TypeOK ==
  /\ pc \in {"idle", "ensure", "open", "gitenv", "lsremote", "compare", "pull",
             "health", "deploy", "dt_validate", "dt_deploying", "dt_exe",
             "dt_login_begin", "dt_login", "dt_compose", "dt_finally",
             "dt_logout", "done"}
  /\ outcome \in {"none", "running", "returned", "raised"}
  /\ clock \in Nat
  /\ ti \in 0..(MaxTargets + 1)

\* ------------------------------------------------------------------ claims
Unhealthy == {"stopped", "daemon_unavailable", "error_check"}

\* Indices of the registries with a username, in list order.
IsPrivate(i) == registries[i].username
PrivateSeq == SelectSeq([i \in 1..Len(registries) |-> i], IsPrivate)
PrivateSet == {i \in 1..Len(registries) : registries[i].username}

\* Names of the targets with deploy=true, in configuration order.
IsDeployed(t) == t.deploy
DeployedSeq ==
  LET sel == SelectSeq(targets, IsDeployed) IN [i \in 1..Len(sel) |-> sel[i].name]

\* Number of update_target calls of the pass that wrote <<t, s>>.
Writes(t, s) ==
  Cardinality({i \in DOMAIN hist.targetWrites : hist.targetWrites[i] = <<t, s>>})

\* No update_target call so far in the pass, and the targets map is the one
\* the pass began with.
NoTargetTouched ==
  /\ hist.targetWrites = <<>>
  /\ Br.targets = hist.targetsAtStart

C2_CompareStep ==
  pc = "compare" =>
    /\ Br.sync_status = "checking"
    /\ IF localHead # remote_commit_hash \/ is_new
         THEN Br'.sync_status = "pulling" /\ pc' = "pull"
         ELSE Br'.sync_status = "idle" /\ pc' = "health" /\ localHead' = localHead

\* After a successful pull: idle, commit_hash is the 7-character prefix of the
\* local HEAD after the reset, deployment is triggered.  Without a pull: idle,
\* nothing pulled, HEAD untouched.
C2_AfterCompare ==
  /\ hist.pullOk =>
       /\ hist.pulling
       /\ Br.sync_status = "idle"
       /\ Br.commit_hash = ShortHash(localHead)
       /\ git_updated /\ deployment_required
       /\ pc \notin {"compare", "pull", "health"}
       /\ pc = "done" => ti = Len(targets) + 1
  /\ (hist.lsRemoteOk /\ pc \notin {"compare"} /\ ~hist.pulling) =>
       /\ ~hist.pullOk /\ ~git_updated
       /\ Br.sync_status = "idle"
       /\ localHead = remote_commit_hash

\* C2: in a pass where ls-remote succeeds the branch goes checking -> pulling
\* iff the remote tip differs from the local HEAD or the repository was cloned
\* in this pass; a successful pull leaves the branch idle with commit_hash =
\* first 7 characters of the local HEAD after the reset and triggers
\* deployment; otherwise the branch goes checking -> idle without pulling.
C2_PullIffDiffers == [][C2_CompareStep]_vars /\ []C2_AfterCompare

\* An existing clone was pulled because the tips differed, and the remote had
\* moved again between ls-remote and fetch.
C2_Witness ==
  /\ pc = "done"
  /\ hist.pullOk
  /\ ~is_new
  /\ localHead # remote_commit_hash

\* C3: in a pass with no git update, deployment is triggered iff some health
\* check returned stopped, daemon_unavailable or error_check; if every target
\* reports running, deploy_target is not invoked and no TargetState is
\* modified.
C3_DriftTriggersDeploy ==
  (hist.lsRemoteOk /\ ~hist.pulling /\ pc \notin {"compare", "health"}) =>
    /\ ~git_updated
    /\ deployment_required <=>
         \E i \in DOMAIN hist.health : hist.health[i] \in Unhealthy
    /\ deployment_required => (pc = "done" => ti = Len(targets) + 1)
    /\ ~deployment_required =>
         /\ pc = "done"
         /\ hist.deployCalls = <<>>
         /\ NoTargetTouched
    /\ (/\ Len(hist.health) = Len(targets)
        /\ \A i \in DOMAIN hist.health : hist.health[i] = "running") =>
         /\ hist.deployCalls = <<>>
         /\ NoTargetTouched

\* Two targets, both checked and both running, one of them with a TargetState
\* from before the pass: the pass ended without touching it.
C3_Witness ==
  /\ pc = "done"
  /\ hist.lsRemoteOk /\ ~hist.pulling
  /\ hist.health = <<"running", "running">>
  /\ HasTarget(1)

\* C4: when deployment is triggered, deploy_target is invoked exactly once for
\* every target with deploy=true, in configuration order, whatever status the
\* earlier deployments ended with, and every target with deploy=false is
\* recorded as skipped.
C4_EveryTargetProcessed ==
  (pc = "done" /\ deployment_required) =>
    /\ hist.deployCalls = DeployedSeq
    /\ \A i \in DOMAIN targets :
         ~targets[i].deploy =>
           /\ HasTarget(targets[i].name)
           /\ Br.targets[targets[i].name].status = "skipped"
           /\ Writes(targets[i].name, "skipped") = 1

\* The first deployment ended in error and the second target was deployed.
C4_Witness ==
  /\ pc = "done"
  /\ deployment_required
  /\ hist.deployCalls = <<1, 2>>
  /\ Br.targets[1].status = "error"
  /\ Br.targets[2].status = "success"

\* C5: if clone, ls-remote (an empty result included) or fetch/reset fails in
\* every one of the configured attempts, the pass ends with sync_status =
\* error, and no health check is run, deploy_target is never invoked and no
\* TargetState is modified in that pass.
C5_GitFailureEndsPass ==
  hist.exhausted # "none" =>
    /\ pc = "done"
    /\ outcome = "returned"
    /\ Br.sync_status = "error"
    /\ hist.health = <<>>
    /\ hist.deployCalls = <<>>
    /\ NoTargetTouched

\* Every ls-remote attempt failed and the last one returned nothing.
C5_Witness ==
  /\ hist.exhausted = "lsremote"
  /\ hist.lsEmpty
  /\ pc = "done"

\* C6: every registry whose login succeeded during a deploy_target call has a
\* logout attempted before the call returns, whatever happens afterwards
\* (compose up success, non-zero exit, timeout, exception, or a failed login
\* to a later registry of the list).
C6_LogoutForEveryLogin ==
  call.returned => call.loggedIn \subseteq Range(call.logoutRuns)

\* C7: a logout failure for one registry never changes the status and message
\* the deployment recorded, never raises out of deploy_target and never
\* prevents the logout attempt for the remaining private registries.
C7_LogoutBestEffort ==
  /\ outcome # "raised"
  /\ pc = "dt_logout" =>
       /\ Recorded(call.target) = call.atFinally
       /\ call.logoutRuns = SelectSeq(PrivateSeq, LAMBDA i : i < call.k)
  /\ (call.returned /\ call.atFinally # <<>>) =>
       Recorded(call.target) = call.atFinally
  /\ (call.returned /\ call.logoutRuns # <<>>) => call.logoutRuns = PrivateSeq

\* The logout of the first registry failed, the second was still logged out
\* and the deployment stayed a success.
C7_Witness ==
  /\ call.returned
  /\ 1 \in call.logoutFailed
  /\ call.logoutRuns = <<1, 2>>
  /\ Recorded(call.target) = <<"success", "Running">>

\* C8: if registry login fails during deploy_target (password variable unset,
\* login exits non-zero, login times out), the target is recorded with status
\* error and the registry-login-failed message, and compose up is never
\* invoked in that call.
C8_LoginFailureAborts ==
  call.loginFailed # "none" =>
    /\ call.loginResult = "false"
    /\ ~call.login_successful
    /\ call.composeRuns = 0
    /\ Recorded(call.target) = <<"error", "Docker registry login failed">>
    /\ pc \in {"dt_finally", "deploy"}

\* The login to the second registry timed out after the first had succeeded.
C8_Witness ==
  /\ call.returned
  /\ call.loginFailed = "timeout"
  /\ call.loggedIn = {1}

\* What C9 says of the loop of docker_login_registries: list order, a login
\* subprocess only for a registry with a username and a set password, a stop
\* at the first private registry whose password is unset or whose login fails.
C9_LoopInOrder ==
  /\ \A i, j \in DOMAIN call.loginRuns :
       i < j => call.loginRuns[i] < call.loginRuns[j]
  /\ Range(call.loginRuns) \subseteq (PrivateSet \cap call.pwSet)
  /\ call.loggedIn \subseteq Range(call.loginRuns)
  /\ call.loginFailed # "none" =>
       /\ call.loginResult = "false"
       /\ call.k \in PrivateSet
       /\ \A i \in Range(call.loginRuns) : i <= call.k
       /\ \A i \in PrivateSet : i < call.k => i \in call.loggedIn
       /\ call.k \notin call.loggedIn

\* C9 as claimed: ... and docker_login_registries returns true if and only if
\* every private registry of the list was logged in.
C9_Original ==
  /\ C9_LoopInOrder
  /\ call.loginResult \in {"true", "false"} =>
       (call.loginResult = "true" <=> PrivateSet \subseteq call.loggedIn)

\* C9 as amended: docker_login_registries processes the registries in list
\* order, runs a login subprocess only for a registry with a username and a
\* set password, returns false at the first private registry whose password
\* is unset or whose login fails without attempting any later one, and
\* returns true iff the list is empty, or the docker executable is found and
\* every private registry of the list was logged in; with a non-empty list
\* and no docker executable it returns false without running any login.
C9_LoginResult ==
  /\ C9_LoopInOrder
  /\ call.loginResult \in {"true", "false"} =>
       (call.loginResult = "true" <=>
          (call.loginStop # "notfound" /\ PrivateSet \subseteq call.loggedIn))
  /\ call.loginStop = "notfound" =>
       /\ registries # <<>>
       /\ call.loginResult = "false"
       /\ call.loginRuns = <<>>

\* One public registry, then a private one whose password is unset: false,
\* and no login subprocess for either.
C9_Witness ==
  /\ call.loginResult = "false"
  /\ call.loginFailed = "password"
  /\ Len(registries) = 2
  /\ ~registries[1].username /\ registries[2].username
  /\ call.loginRuns = <<>>

\* C10: if environment validation reports the target invalid, deploy_target
\* records status error with the missing-environment message, and in that
\* call the target is never set to deploying and no registry login, compose
\* up or logout is attempted.
C10_InvalidEnvAborts ==
  (call.validated /\ ~call.valid) =>
    /\ call.returned
    /\ Recorded(call.target) = <<"error", "Missing environment configuration">>
    /\ ~call.deploying
    /\ Writes(call.target, "deploying") = 0
    /\ call.loginResult = "none" /\ call.loginRuns = <<>>
    /\ call.composeRuns = 0
    /\ call.logoutRuns = <<>>

\* The validator reported the target invalid and the call has returned.
C10_Witness ==
  /\ call.returned
  /\ call.validated /\ ~call.valid
  /\ Recorded(call.target)[1] = "error"

\* C11: if the docker daemon probe fails at the start of deploy_target, the
\* target is recorded with status error and message "Docker daemon
\* unavailable", and no environment validation, registry login, compose up
\* or logout is performed in that call.
C11_DaemonDownAborts ==
  call.probe \notin {"none", "ok"} =>
    /\ call.returned
    /\ Recorded(call.target) = <<"error", "Docker daemon unavailable">>
    /\ ~call.validated
    /\ ~call.deploying
    /\ call.loginResult = "none" /\ call.loginRuns = <<>>
    /\ call.composeRuns = 0
    /\ call.logoutRuns = <<>>

\* The probe timed out and the call has returned.
C11_Witness ==
  /\ call.returned
  /\ call.probe = "timeout"
  /\ Recorded(call.target)[2] = "Docker daemon unavailable"

\* C12: once deploy_target has set a target to deploying, the target's status
\* when the call returns is success or error and never deploying; it is
\* success iff compose up exited with code zero; a non-zero exit or a timeout
\* of compose up is recorded as error, and no exception leaves deploy_target.
C12_DeployingEnds ==
  /\ outcome # "raised"
  /\ (call.returned /\ call.deploying) =>
       /\ Recorded(call.target)[1] \in {"success", "error"}
       /\ Recorded(call.target)[1] = "success" <=> call.composeResult = "ok"
       /\ call.composeResult \in {"nonzero", "timeout"} =>
            Recorded(call.target)[1] = "error"
  /\ call.composeResult \in {"nonzero", "timeout"} =>
       /\ pc \in {"dt_finally", "dt_logout", "deploy"}
       /\ Recorded(call.target)[1] = "error"

\* Compose up timed out after a login, the registry was logged out and the
\* call returned with the target in error.
C12_Witness ==
  /\ call.returned
  /\ call.deploying
  /\ call.composeResult = "timeout"
  /\ call.logoutRuns # <<>>
  /\ Recorded(call.target) = <<"error", "Timeout">>

\* The retry count and the backoff factor the call of rt runs with.
RtRetries ==
  IF rt.max_retries # 0 THEN rt.max_retries ELSE rt.config.git_retry_count
RtFactor ==
  IF rt.backoff_factor # 0 THEN rt.backoff_factor
  ELSE rt.config.retry_backoff_factor

\* The first k invocations of the function of rt fail with a git error.
GitFailsFirst(k) == \A i \in 1..k : rt.outs[i].kind = "giterr"

\* C13: with N configured retries, _retry_with_backoff invokes a function
\* that fails with a git error exactly k < N times and then succeeds exactly
\* k+1 times and returns its success value; a function that always fails with
\* a git error is invoked exactly N times and then its last error is raised.
C13_RetryCounts ==
  rt.done =>
    /\ \A k \in 0..(RtRetries - 1) :
         (GitFailsFirst(k) /\ rt.outs[k + 1].kind = "ok") =>
           /\ rt.result.kind = "ok"
           /\ rt.result.calls = k + 1
           /\ rt.result.value = rt.outs[k + 1].value
    /\ GitFailsFirst(RtRetries) =>
         /\ rt.result.calls = RtRetries
         /\ rt.result.kind = "giterr"
         /\ rt.result.value = rt.outs[RtRetries].value

\* C14: the wait after failed attempt i (0-indexed) is backoff_factor^i
\* seconds, a wait occurs only between two consecutive attempts (calls minus
\* one waits in total), and no wait follows the final failed attempt before
\* the error is raised.
C14_BackoffWaits ==
  rt.done =>
    /\ \A i \in DOMAIN rt.result.waits :
         /\ rt.result.waits[i] = Pow(RtFactor, i - 1)
         /\ rt.outs[i].kind = "giterr"
         /\ i < rt.result.calls
    /\ rt.result.calls >= 1 => Len(rt.result.waits) = rt.result.calls - 1
    /\ rt.result.calls = 0 => rt.result.waits = <<>>
    /\ rt.result.kind = "giterr" =>
         /\ rt.result.calls = RtRetries
         /\ Len(rt.result.waits) = RtRetries - 1

\* Four attempts with the configured factor, all failed: three waits, none
\* after the last attempt.
C14_Witness ==
  /\ rt.done
  /\ rt.result.kind = "giterr"
  /\ rt.result.calls = 4
  /\ rt.result.waits = <<1, BackoffFactor, BackoffFactor * BackoffFactor>>

\* C15: a failure raised by the wrapped function that is not a
\* GitOperationError or GitCommandError propagates out of
\* _retry_with_backoff from the invocation that raised it, a single
\* invocation when it is the first, with no wait and no retry after it.
C15_OtherErrorsPropagate ==
  rt.done =>
    /\ \A k \in 1..RtRetries :
         (GitFailsFirst(k - 1) /\ rt.outs[k].kind = "other") =>
           /\ rt.result.kind = "other"
           /\ rt.result.value = rt.outs[k].value
           /\ rt.result.calls = k
           /\ Len(rt.result.waits) = k - 1
    /\ (RtRetries >= 1 /\ rt.outs[1].kind = "other") =>
         /\ rt.result.kind = "other"
         /\ rt.result.calls = 1
         /\ rt.result.waits = <<>>

\* The first invocation raised another exception while three retries were
\* configured: one invocation, no wait.
C15_Witness ==
  /\ rt.done
  /\ RtRetries = 3
  /\ rt.outs[1].kind = "other"
  /\ rt.result.kind = "other"
  /\ rt.result.calls = 1

\* The store after the calls of the workers in `order`, made one after another.
RECURSIVE SerialApply(_, _)
SerialApply(st, order) ==
  IF order = <<>> THEN st
  ELSE SerialApply(
         UpdateBranchStatus(st, RepoName, BranchName,
                            KwRecord(workers[Head(order)].kw)),
         Tail(order))

\* C16: for N update_branch calls on the same repo/branch issued concurrently
\* by different workers, the final BranchState equals the result of applying
\* the N calls one after another in some order, so no partially applied field
\* set survives.
C16_Serializable ==
  (workers # <<>> /\ \A w \in DOMAIN workers : workers[w].pc = "done") =>
    \E order \in Permutations(DOMAIN workers) :
      Br = SerialApply(storeHist.store0,
                       [i \in DOMAIN workers |-> order[i]])
             [RepoName].branches[BranchName]

\* ------------------------------------------------------------------ C17
\* The subscribers whose stream() generator is started and not finished.
Live ==
  {s \in Subs : subs[s].pc \in {"subscribed", "yield0", "waiting", "yield"}}

\* A store call has just been made: the call history grew by one.
StoreCalled == Len(storeHist'.calls) = Len(storeHist.calls) + 1

\* The call just made, and whether it is one that mutates the store.
LastCall == storeHist'.calls[Len(storeHist'.calls)]
Mutating ==
  \/ LastCall.kind = "branch"
  \/ BranchExists(status, LastCall.repo, BranchName)

\* C17: every update_branch call, and every update_target call on an
\* existing branch, puts exactly one item at the end of every queue of the
\* fan-out list, so of every subscribed listener; the item is the same for
\* all and is the snapshot of the whole store as the call left it.
C17_Step ==
  (StoreCalled /\ Mutating) =>
    /\ Len(listeners') = Len(listeners)
    /\ \A i \in DOMAIN listeners :
         listeners'[i] = Append(listeners[i], ToJson(status'))
    /\ \A s \in Live : QueueIndex(s) # 0

C17_FanOut == [][C17_Step]_vars

\* Two subscribers wait with an item each in their queues, and the item is
\* the snapshot of a store that holds both repositories.
C17_Witness ==
  /\ Live = Subs
  /\ Len(listeners) = NumSubs
  /\ \A i \in DOMAIN listeners :
       /\ listeners[i] # <<>>
       /\ listeners[i][Len(listeners[i])] = ToJson(status)
  /\ DOMAIN status = Repos

\* ------------------------------------------------------------------ C18
\* The frames of a sequence of snapshots.
Frames(seq) == [i \in DOMAIN seq |-> SseFrame(seq[i])]

\* The snapshots fanned out since subscriber s subscribed.
FannedSince(s) ==
  SubSeq(storeHist.fanout, subs[s].since + 1, Len(storeHist.fanout))

\* C18: what a subscriber has received starts with one snapshot of the
\* whole store as it was when the snapshot was taken; what it has received
\* after that, followed by what still waits in its queue, is exactly the
\* snapshots of the mutations made since it subscribed, one each, in the
\* order of the mutations.
C18_StreamDelivers ==
  \A s \in Subs :
    (subs[s].pc \in {"yield0", "waiting", "yield"}) =>
      /\ QueueIndex(s) # 0
      /\ subs[s].received[1] = SseFrame(ToJson(subs[s].store))
      /\ Tail(subs[s].received) \o Frames(listeners[QueueIndex(s)])
           = Frames(FannedSince(s))

\* A subscriber has received the first snapshot and two more, which differ.
C18_Witness ==
  \E s \in Subs :
    /\ subs[s].pc = "yield"
    /\ Len(subs[s].received) = 3
    /\ subs[s].received[2] # subs[s].received[3]
    /\ listeners[QueueIndex(s)] = <<>>

\* ------------------------------------------------------------------ C19
\* C19: the fan-out list holds exactly the queues of the live subscribers:
\* once a subscriber has disconnected, at whatever point of its stream, its
\* queue is in the list no more.
C19_OnlyLiveQueues ==
  /\ Len(listeners) = Len(lsnIds)
  /\ Range(lsnIds) = Live

\* ------------------------------------------------------------------ C20
\* The call just made is an update_target whose branch entry is missing.
TargetOnMissingBranch ==
  /\ StoreCalled
  /\ LastCall.kind = "target"
  /\ ~BranchExists(status, LastCall.repo, BranchName)

\* C20: update_target for a branch that has no entry changes nothing: the
\* store is as it was (no repository, branch or target entry is new), the
\* status file is as it was, and no queue has a new snapshot.
C20_Step ==
  TargetOnMissingBranch =>
    /\ status' = status
    /\ statusFile' = statusFile
    /\ listeners' = listeners

C20_MissingBranchNoOp == [][C20_Step]_vars

\* ------------------------------------------------------------------ C21
\* The call just made is an update_target that found its branch.
TargetUpdated ==
  /\ StoreCalled
  /\ LastCall.kind = "target"
  /\ BranchExists(status, LastCall.repo, BranchName)

\* Target 1 of the branch of repo in store st, as update_target finds it.
TargetIn(st, repo) ==
  IF 1 \in DOMAIN st[repo].branches[BranchName].targets
    THEN st[repo].branches[BranchName].targets[1]
    ELSE NewTargetStatus

\* Every target of the store that has status success has a deploy time.
SuccessHasTime ==
  \A r \in DOMAIN status : \A b \in DOMAIN status[r].branches :
    \A t \in DOMAIN status[r].branches[b].targets :
      status[r].branches[b].targets[t].status = "success" =>
        status[r].branches[b].targets[t].last_deploy_time # None

\* C21: an update_target call sets last_deploy_time to the time of the call
\* when the new status is success and leaves it as it was for any other
\* status; the snapshot the call fans out and persists shows the new status
\* of the target.  So a target with status success always has a
\* last_deploy_time.
C21_Step ==
  TargetUpdated =>
    LET old == TargetIn(status, LastCall.repo)
        new == TargetIn(status', LastCall.repo)
        snap == storeHist'.fanout[Len(storeHist'.fanout)]
    IN /\ new.status = LastCall.status
       /\ new.last_deploy_time =
            IF LastCall.status = "success" THEN <<clock>>
            ELSE old.last_deploy_time
       /\ snap = ToJson(status')
       /\ snap[LastCall.repo].branches[BranchName].targets[1].status
            = LastCall.status
       /\ \A i \in DOMAIN listeners' :
            listeners'[i][Len(listeners'[i])] = snap

C21_DeployTime == [][C21_Step]_vars /\ []SuccessHasTime

\* A target that succeeded at one time and again later; another that was
\* created in error and has no deploy time; a subscriber has the snapshot.
C21_Witness ==
  /\ clock = MaxCalls
  /\ BranchExists(status, RepoName, BranchName)
  /\ TargetIn(status, RepoName).status = "success"
  /\ TargetIn(status, RepoName).last_deploy_time = <<clock - 1>>
  /\ listeners # <<>>
  /\ listeners[1] # <<>>

\* ------------------------------------------------------------------ C22
\* The call just made is an update_branch.
BranchUpdated == StoreCalled /\ LastCall.kind = "branch"

\* C22: update_branch(repo, branch, fields) leaves every other repository
\* and every other branch of the repository as they were, creates the
\* repository and branch entries when they are absent, and gives the branch
\* the named fields; every other field of the branch, its targets map
\* included, keeps the value it had (the default of a new entry when the
\* branch was absent).
C22_Step ==
  BranchUpdated =>
    LET repo == LastCall.repo
        kw == LastCall.kw
        oldBranches == IF repo \in DOMAIN status THEN status[repo].branches
                       ELSE [b \in {} |-> 0]
        b0 == IF BranchName \in DOMAIN oldBranches THEN oldBranches[BranchName]
              ELSE NewBranchStatus
        b1 == status'[repo].branches[BranchName]
    IN /\ DOMAIN status' = DOMAIN status \cup {repo}
       /\ \A r \in DOMAIN status \ {repo} : status'[r] = status[r]
       /\ DOMAIN status'[repo].branches = DOMAIN oldBranches \cup {BranchName}
       /\ \A b \in DOMAIN oldBranches \ {BranchName} :
            status'[repo].branches[b] = oldBranches[b]
       /\ DOMAIN b1 = DOMAIN b0
       /\ \A f \in DOMAIN b1 :
            b1[f] = IF f \in DOMAIN kw THEN kw[f] ELSE b0[f]
       /\ b1.targets = b0.targets

C22_OnlyNamedFields == [][C22_Step]_vars

\* The branch that had a target and a check time was set to pulling with a
\* new commit hash and kept both, after the other repository was created.
C22_Witness ==
  /\ DOMAIN status = Repos
  /\ BranchExists(status, RepoName, BranchName)
  /\ status[RepoName].branches[BranchName].sync_status = "pulling"
  /\ status[RepoName].branches[BranchName].last_check_time = <<0>>
  /\ TargetIn(status, RepoName).status = "success"
  /\ storeHist.calls[Len(storeHist.calls)].kind = "branch"
  /\ storeHist.calls[Len(storeHist.calls)].repo = RepoName

\* ------------------------------------------------------------------ C23
\* C23: after any sequence of store calls made one at a time, the status
\* file holds the snapshot of the whole current store, and load_status on
\* that file gives the store back: the same repositories, branches, targets
\* and field values.
C23_FileIsStore ==
  /\ statusFile = ToJson(status)
  /\ LoadStatus(statusFile) = status

\* ------------------------------------------------------------------ C24
\* C24: once the process has started and before its first pass mutates the
\* store, the store is what the last persisted snapshot held (empty when
\* there was no file); and the targets recorded before the restart are
\* still in the store while the first pass runs.
C24_LoadedOnStart ==
  /\ pc = "idle" => status = storeHist.store0
  /\ pc # "boot" =>
       \A r \in DOMAIN storeHist.store0 :
         /\ r \in DOMAIN status
         /\ \A b \in DOMAIN storeHist.store0[r].branches :
              /\ b \in DOMAIN status[r].branches
              /\ DOMAIN storeHist.store0[r].branches[b].targets
                   \subseteq DOMAIN status[r].branches[b].targets

C27_PassReturns == (pc # "idle") ~> (pc = "done")

\* ------------------------------------------------------------------ C28
\* Number of deploy_target calls of the current pass for target t.
DeployCallsOf(t) ==
  Cardinality({i \in DOMAIN hist.deployCalls : hist.deployCalls[i] = t})

\* The targets of the branch, deployed by configuration, that the pass
\* before left with status error.
LeftInError ==
  {i \in DOMAIN targets :
     /\ targets[i].deploy
     /\ prev.pass > 0
     /\ BranchExists(prev.store, RepoName, BranchName)
     /\ targets[i].name \in DOMAIN prev.store[RepoName].branches[BranchName].targets
     /\ prev.store[RepoName].branches[BranchName].targets[targets[i].name].status
          = "error"}

\* The pass after has ended without a git failure and met the remote tip
\* the pass before met: no new commit arrived in between.
NextPassSameCommit ==
  /\ prev.pass > 0
  /\ pc = "done"
  /\ outcome = "returned"
  /\ hist.raised = "none"
  /\ prev.remote # None
  /\ remote_commit_hash = prev.remote

\* C28: no pass calls deploy_target twice for a target, and a target whose
\* deployment ended in error has deploy_target called for it again by the
\* next pass of the branch, new commit or not.
C28_RetriedNextPass ==
  /\ \A i \in DOMAIN targets : DeployCallsOf(targets[i].name) <= 1
  /\ NextPassSameCommit =>
       \A i \in LeftInError : DeployCallsOf(targets[i].name) = 1

\* ------------------------------------------------------------------ C29
\* The branch entry without its last_check_time.
ButCheckTime(b) == [f \in DOMAIN b \ {"last_check_time"} |-> b[f]]

\* Two passes in a row have ended, neither met an upstream change and both
\* found every target running.
TwoQuietPasses ==
  /\ prev.pass > 0
  /\ prev.quiet
  /\ pc = "done"
  /\ QuietPass(hist)

\* C29: when two passes in a row meet no upstream change and find every
\* target running, the second leaves the branch entry as the first left
\* it, but for last_check_time: sync_status, commit_hash and every target's
\* status, message and last_deploy_time are the same, and the second pass
\* calls neither deploy_target nor update_target.
C29_Idempotent ==
  TwoQuietPasses =>
    /\ ButCheckTime(Br) = ButCheckTime(prev.store[RepoName].branches[BranchName])
    /\ Br.last_check_time = <<clock>>
    /\ prev.store[RepoName].branches[BranchName].last_check_time = <<prev.pass>>
    /\ hist.deployCalls = <<>>
    /\ hist.targetWrites = <<>>
    /\ DOMAIN status = DOMAIN prev.store

\* Two such passes of a branch that has a target, whose entry in the store
\* shows a deployment.
C29_Witness ==
  /\ TwoQuietPasses
  /\ targets # <<>>
  /\ 1 \in DOMAIN Br.targets
  /\ Br.targets[1].status = "success"
  /\ Br.sync_status = "idle"

\* ------------------------------------------------------------------ C30
\* The snapshots fanned out so far that show target 1 of the branch.
ShowingTarget ==
  SelectSeq(listeners[1],
            LAMBDA snap : /\ RepoName \in DOMAIN snap
                          /\ BranchName \in DOMAIN snap[RepoName].branches
                          /\ 1 \in DOMAIN snap[RepoName].branches[BranchName].targets)

\* The statuses of target 1 in the snapshots that show it, in order.
SeenStatuses ==
  [i \in DOMAIN ShowingTarget |->
     ShowingTarget[i][RepoName].branches[BranchName].targets[1].status]

\* The first pass of a branch not yet cloned and not yet in the store, with
\* one target that is deployed, has ended; clone, ls-remote, pull and the
\* deployment succeeded.
FirstDeployDone ==
  /\ pc = "done"
  /\ is_new
  /\ hist.raised = "none"
  /\ hist.targetsAtStart = <<>>
  /\ targets = <<[name |-> 1, deploy |-> TRUE]>>
  /\ hist.targetWrites # <<>>
  /\ hist.targetWrites[Len(hist.targetWrites)] = <<1, "success">>

\* C30 as claimed: such a pass ends with sync_status idle and commit_hash
\* the first 7 characters of the remote tip it pulled, and the snapshots
\* show the target as pending, then deploying, then success.
C30_Original ==
  FirstDeployDone =>
    /\ Br.sync_status = "idle"
    /\ Br.commit_hash = ShortHash(localHead)
    /\ SeenStatuses = <<"pending", "deploying", "success">>

\* C30 as the code has it: the target has no entry until its deployment
\* begins, and the snapshots show it as deploying, then success; no
\* snapshot of the pass shows it as pending.
C30_FirstDeploy ==
  /\ FirstDeployDone =>
       /\ Br.sync_status = "idle"
       /\ Br.commit_hash = ShortHash(localHead)
       /\ SeenStatuses = <<"deploying", "success">>
       /\ Recorded(1)[1] = "success"
  /\ (pc # "idle" /\ hist.targetsAtStart = <<>>) =>
       \A i \in DOMAIN SeenStatuses : SeenStatuses[i] # "pending"

C30_Witness ==
  /\ FirstDeployDone
  /\ Len(listeners[1]) > Len(ShowingTarget)
  /\ Len(ShowingTarget) = 2

\* C31: check_actual_target_state returns exactly one of running, stopped,
\* daemon_unavailable and error_check: daemon_unavailable exactly when the
\* daemon probe fails; otherwise running exactly when "compose ps" listed a
\* running service, stopped exactly when it listed none and exited with
\* code zero, and error_check in every other case (non-zero exit with an
\* empty list, timeout, any exception).
ProbeFailed(c) == c.probe # "ok"
Listed(c) == c.ps # None /\ c.ps.kind = "exit" /\ c.ps.services
ListedNone(c) == c.ps # None /\ c.ps.kind = "exit" /\ ~c.ps.services /\ c.ps.returncode = 0
C31_ActualState ==
  fn.name = "check_actual_target_state" =>
    \A i \in 1..Len(fn.checks) :
      LET c == fn.checks[i]
      IN /\ c.result \in {"running", "stopped", "daemon_unavailable", "error_check"}
         /\ (c.result = "daemon_unavailable") <=> ProbeFailed(c)
         /\ ~ProbeFailed(c) =>
              /\ (c.result = "running") <=> Listed(c)
              /\ (c.result = "stopped") <=> ListedNone(c)
              /\ (c.result = "error_check") <=> (~Listed(c) /\ ~ListedNone(c))

\* Two calls: one whose "compose ps" timed out, one that listed services
\* although the command exited with a non-zero code.
C31_Witness ==
  /\ fn.name = "check_actual_target_state"
  /\ Len(fn.checks) = 2
  /\ fn.checks[1].probe = "ok" /\ fn.checks[1].ps.kind = "timeout"
  /\ fn.checks[1].result = "error_check"
  /\ fn.checks[2].probe = "ok" /\ fn.checks[2].ps.kind = "exit"
  /\ fn.checks[2].ps.services /\ fn.checks[2].ps.returncode = 1
  /\ fn.checks[2].result = "running"

\* C32: the compose project names computed for two distinct configured
\* (repo, branch, target) triples are different.
C32_DistinctProjects ==
  (fn.name = "project_name" /\ fn.done /\ fn.a # fn.b) => fn.pa # fn.pb

\* C33: every result of validate_docker_compose_env has is_valid false
\* exactly when warnings is non-empty; a missing manifest and a manifest
\* that cannot be parsed each give is_valid = false with exactly one warning.
Validated == fn.name = "validate_docker_compose_env" /\ fn.done
C33_ValidIffNoWarnings ==
  Validated =>
    /\ ~fn.result.is_valid <=> Len(fn.result.warnings) > 0
    /\ (~fn.manifest.exists \/ fn.manifest.parse = "yamlerr") =>
         (~fn.result.is_valid /\ Len(fn.result.warnings) = 1)

\* A manifest that parses, has every variable it needs, and names an
\* env_file that is not there: invalid, with that one warning.
C33_Witness ==
  /\ Validated
  /\ fn.manifest.parse = "dict"
  /\ fn.manifest.env_files_missing = {"a.env"}
  /\ Len(fn.manifest.refs) = 1 /\ fn.manifest.refs[1].form = "braced"
  /\ fn.manifest.refs[1].var = <<"B">> /\ <<"B">> \in fn.environ
  /\ ~fn.result.is_valid
  /\ Len(fn.result.warnings) = 1

\* C34: the variables reported missing are exactly those referenced at least
\* once without an inline default and present neither in the process
\* environment nor in the .env file; they are reported in one warning entry,
\* and a manifest all of whose references carry a default (no env_file
\* missing) validates as (true, no warnings).
RequiredVars ==
  { fn.manifest.refs[i].var :
      i \in { k \in 1..Len(fn.manifest.refs) : fn.manifest.refs[k].form # "default" } }
DotEnvDefined ==
  { fn.dotenv.src[i].key :
      i \in { k \in 1..Len(fn.dotenv.src) :
                fn.dotenv.src[k].kind \in {"assign", "indented"} } }
MissingEntries ==
  { i \in 1..Len(fn.result.warnings) : fn.result.warnings[i].kind = "missing_vars" }
ReportedMissing ==
  UNION { fn.result.warnings[i].what : i \in MissingEntries }
C34_MissingExactly ==
  (Validated /\ fn.manifest.parse = "dict") =>
    /\ ReportedMissing = RequiredVars \ (fn.environ \cup DotEnvDefined)
    /\ Cardinality(MissingEntries) <= 1
    /\ (RequiredVars = {} /\ fn.manifest.env_files_missing = {}) =>
         fn.result = [is_valid |-> TRUE, warnings |-> <<>>]

\* C35: when the clone has been tried and the last of the configured
\* attempts has failed too, ensure_repo raises GitOperationError and the
\* working directory does not exist afterwards.
EnsureEnded == fn.name = "ensure_repo" /\ fn.pc \in {"returned", "raised"}
C35_CloneFailureCleansUp ==
  (EnsureEnded /\ fn.attempt >= 1 /\ fn.last # "ok") =>
    /\ fn.pc = "raised"
    /\ fn.result = [exc |-> "giterr"]
    /\ ~fn.dir

\* Three attempts were configured and made, and each failed.
C35_Witness ==
  /\ EnsureEnded
  /\ fn.git_retry_count = 3
  /\ fn.attempt = 3
  /\ fn.last = "giterr"
  /\ fn.pc = "raised"
  /\ ~fn.dir

\* C36: when a pass has ended, the branch's sync_status is idle or error;
\* checking and pulling never remain once check_and_update is over.
C36_EndsIdleOrError ==
  pc = "done" =>
    /\ outcome = "returned"
    /\ BranchExists(status, RepoName, BranchName)
    /\ Br.sync_status \in {"idle", "error"}

\* A pass that had set the branch to pulling and whose pull then failed.
C36_Witness ==
  /\ pc = "done"
  /\ hist.pulling
  /\ hist.raised = "pull"
  /\ Br.sync_status = "error"

\* C37: when a pass has ended with sync_status idle, the recorded commit_hash
\* is the 7-character prefix of the working copy's HEAD, and the pass did not
\* see a remote tip that called for a pull it did not complete.
C37_IdleMeansHead ==
  (pc = "done" /\ BranchExists(status, RepoName, BranchName)
     /\ Br.sync_status = "idle") =>
    /\ localHead # None
    /\ Br.commit_hash = ShortHash(localHead)
    /\ ~(hist.lsRemoteOk /\ hist.needPull /\ ~hist.pullOk)

\* A pass that pulled: the remote tip differed from HEAD, and HEAD is now
\* what the pull brought.
C37_Witness ==
  /\ pc = "done"
  /\ hist.needPull /\ hist.pullOk
  /\ Br.sync_status = "idle"
  /\ Br.commit_hash = ShortHash(localHead)
  /\ Br.commit_hash # localHead

\* C38: the logout at the end of one worker's deploy_target never removes a
\* registry's credentials while another worker's compose up, started after
\* that worker's own successful login, is still running.
C38_Step ==
  \A k \in creds \ creds' :
    \A w \in Deployers :
      ~(deployers[w].pc = "composing" /\ deployers[w].login_successful
          /\ registries[k].username)
C38_LogoutSparesOthers == [][C38_Step]_vars

\* C39: when the mutations issued concurrently by several workers have all
\* completed, the persisted snapshot file and the last snapshot queued to
\* each subscriber equal the final in-memory state.
AllWorkersDone ==
  workers # <<>> /\ \A w \in DOMAIN workers : workers[w].pc = "done"
C39_LastSnapshotIsFinal ==
  AllWorkersDone =>
    /\ statusFile = ToJson(status)
    /\ \A i \in DOMAIN listeners :
         listeners[i] # <<>> => listeners[i][Len(listeners[i])] = ToJson(status)

\* C40: in a pass with no commit change in which every target with
\* deploy=true is found running, deploy_target is not invoked, even when the
\* branch also has targets with deploy=false, which report stopped.
DeployTargetsRunning ==
  /\ \A i \in 1..Len(targets) :
       targets[i].deploy => (i <= Len(hist.health) /\ hist.health[i] = "running")
  /\ \A i \in 1..Len(hist.health) :
       ~targets[i].deploy => hist.health[i] \in {"running", "stopped"}
C40_NoDeployWhenRunning ==
  (/\ pc = "done"
   /\ hist.lsRemoteOk /\ ~hist.needPull
   /\ hist.health # <<>>
   /\ DeployTargetsRunning) => hist.deployCalls = <<>>

====
